---- MODULE Spec2Model ----
(***************************************************************************)
(* A model of the FMW2 template generator: the guard-duty list pruner,     *)
(* the flat-form validation and generation handler of the Home page, the   *)
(* night-strength adjuster and the guard-duty roster builder.              *)
(*                                                                         *)
(* Texts are sequences of tokens.  A token stands for a fixed piece of     *)
(* text (a newline, a space, a run of '=' characters, the digits "D/M" of  *)
(* a date line, a "GUARD DUTY <MONTH> <YEAR>" header, a roster label, a    *)
(* number, or another word); the regular expressions of the source are     *)
(* evaluated over these tokens position by position.                       *)
(***************************************************************************)
EXTENDS Integers, Sequences, FiniteSets, TLC

VARIABLES
    \* pruneGuardDutyList applied to a pasted text, and to its own output
    raw, today, nowYear, pruned, repruned, pstage,
    \* templates.nightStrength.generate applied to a pasted roster
    psNightStrength, blk210, nightOut, nstage,
    \* Home: the displayed text, the last toast, the log records submitted,
    \* the calls of a template's generate or of onGenerate, the events handled
    generated, toast, logs, generateCalls, steps,
    \* Home with a flat form: the template, the values of the fields, the
    \* loading flag, the log request handleGenerate awaits
    selectedType, fieldValues, loading, pending,
    \* GuardDutyUI: its state; what is stored under its storage key; how far
    \* the mount has got; the state the load effect has read and queued
    entries, selectedMonth, selectedYear, guardSaved, gphase, guardLoaded,
    \* RoutineOrderUI: the hydrated flag, the span, the regimental entries
    \* (its state `entries`), and what the save effect left in storage
    hydrated, spanDays, regEntries, routineSaved,
    \* RoutineOrderUI: the three texts typed or pasted (its state
    \* `guardDutyText` is routineGuardDutyText)
    safetyMessage, eventUpdate, routineGuardDutyText

pruneVars == <<raw, today, nowYear, pruned, repruned, pstage>>
nightVars == <<psNightStrength, blk210, nightOut, nstage>>
homeVars == <<generated, toast, logs, generateCalls, steps>>
formVars == <<selectedType, fieldValues, loading, pending>>
guardVars == <<entries, selectedMonth, selectedYear, guardSaved, gphase, guardLoaded>>
routineVars ==
    <<hydrated, spanDays, regEntries, routineSaved, safetyMessage, eventUpdate,
      routineGuardDutyText>>
vars == <<pruneVars, nightVars, homeVars, formVars, guardVars, routineVars>>

----------------------------------------------------------------------------
(* Tokens                                                                  *)

Tok(k, a, b) == [k |-> k, a |-> a, b |-> b]
NL == Tok("nl", 0, 0)               \* "\n"
CRLF == Tok("crlf", 0, 0)           \* "\r\n"
SP == Tok("sp", 0, 0)               \* " "
Eq(n) == Tok("eq", n, 0)            \* a run of n '=' characters
DateTok(d, m) == Tok("date", d, m)  \* the digits "d/m"
Header(mi, y) == Tok("hdr", mi, y)  \* "GUARD DUTY <MONTHS[mi]> <y>"
Word(i) == Tok("word", i, 0)        \* other text that starts with a letter or digit: Words[i + 1]
Paren(i) == Tok("paren", i, 0)      \* "(<DAY_NAMES[i]>)", text that starts with punctuation

Undefined == -1

\* \s of the regular expressions
IsWs(t) == t.k \in {"nl", "sp", "crlf"}
\* \w at the first character of the token's text
StartsWithWordChar(t) == t.k \in {"date", "hdr", "word", "label", "num"}

Min(S) == CHOOSE x \in S : \A y \in S : x <= y
Max(S) == CHOOSE x \in S : \A y \in S : x >= y

\* Array.prototype.join
RECURSIVE Join(_, _)
Join(ss, sep) ==
    IF ss = <<>> THEN <<>>
    ELSE IF Len(ss) = 1 THEN ss[1]
    ELSE ss[1] \o sep \o Join(Tail(ss), sep)

TrimStart(s) ==
    LET solid == { i \in 1..Len(s) : ~IsWs(s[i]) }
    IN IF solid = {} THEN <<>> ELSE SubSeq(s, Min(solid), Len(s))

TrimEnd(s) ==
    LET solid == { i \in 1..Len(s) : ~IsWs(s[i]) }
    IN IF solid = {} THEN <<>> ELSE SubSeq(s, 1, Max(solid))

Trim(s) == TrimEnd(TrimStart(s))

\* ^ and $ under the m flag, at the position before token i
AtLineStart(s, i) == i = 1 \/ s[i - 1] = NL
AtLineEnd(s, i) == i = Len(s) + 1 \/ s[i] = NL

\* the lines of a text ("\n" separated)
RECURSIVE Lines(_)
Lines(s) ==
    LET nls == { i \in 1..Len(s) : s[i] = NL }
    IN IF nls = {} THEN <<s>>
       ELSE <<SubSeq(s, 1, Min(nls) - 1)>> \o Lines(SubSeq(s, Min(nls) + 1, Len(s)))

----------------------------------------------------------------------------
(* Dates: a Date is a local calendar day (days since 1 January 1970) and a *)
(* time of day.                                                            *)

DaysFromCivil(y, m, d) ==
    LET yy == IF m <= 2 THEN y - 1 ELSE y
        era == yy \div 400
        yoe == yy - era * 400
        mp == (m + 9) % 12
        doy == (153 * mp + 2) \div 5 + d - 1
        doe == yoe * 365 + yoe \div 4 - yoe \div 100 + doy
    IN era * 146097 + doe - 719468

\* new Date(year, monthIndex, day): a day outside the month rolls over
NewDate(year, monthIndex, day) ==
    [day |-> DaysFromCivil(year, monthIndex + 1, 1) + day - 1, tod |-> 0]

startOfDay(d) == [d EXCEPT !.tod = 0]

\* Date.prototype.getTime, compared
TimeGeq(a, b) == a.day > b.day \/ (a.day = b.day /\ a.tod >= b.tod)

\* Date.prototype.getDay: 0 is Sunday
getDay(d) == (d.day + 4) % 7

----------------------------------------------------------------------------
(* pruneGuardDutyList                                                      *)

monthNameToIndex(name) == IF name \in 0..11 THEN name ELSE Undefined

\* text.match(/^GUARD DUTY\s+([A-Z]+)\s+(\d{4})\s*$/im): the index of the
\* first header token that starts a line and is followed on its line by
\* white space only; 0 when there is none
HeaderAt(text, i) ==
    /\ text[i].k = "hdr"
    /\ AtLineStart(text, i)
    /\ \E j \in (i + 1)..(Len(text) + 1) :
          /\ \A q \in (i + 1)..(j - 1) : IsWs(text[q])
          /\ AtLineEnd(text, j)

headerMatch(text) ==
    LET hs == { i \in 1..Len(text) : HeaderAt(text, i) }
    IN IF hs = {} THEN 0 ELSE Min(hs)

\* text.replace(headerLine, ""): the first occurrence of the header's text
RemoveFirst(text, tok) ==
    LET at == { i \in 1..Len(text) : text[i] = tok }
    IN IF at = {} THEN text
       ELSE SubSeq(text, 1, Min(at) - 1) \o SubSeq(text, Min(at) + 1, Len(text))

\* the first token at or after s that is not white space; Len + 1 if none
FirstSolid(s, from) ==
    LET solid == { i \in from..Len(s) : ~IsWs(s[i]) }
    IN IF solid = {} THEN Len(s) + 1 ELSE Min(solid)

\* the last token of the line that holds token t
LineEnd(s, t) ==
    LET nls == { i \in t..Len(s) : s[i] = NL }
    IN IF nls = {} THEN Len(s) ELSE Min(nls) - 1

\* a date line match that does not look at what follows the digits
DateLineLoose(body, s) ==
    LET t == FirstSolid(body, s)
    IN /\ AtLineStart(body, s)
       /\ t <= Len(body)
       /\ body[t].k = "date"

\* /^\s*(\d{1,2})\/(\d{1,2})\b.*$/ matched at position s: s starts a line,
\* white space (newlines included) follows up to the digits "d/m", and no
\* word character follows the digits
DateLineAt(body, s) ==
    LET t == FirstSolid(body, s)
    IN /\ AtLineStart(body, s)
       /\ t <= Len(body)
       /\ body[t].k = "date"
       /\ (t = Len(body) \/ ~StartsWithWordChar(body[t + 1]))

\* Array.from(body.matchAll(dateLineRegex)): successive leftmost matches
RECURSIVE dateLineMatches(_, _)
dateLineMatches(body, from) ==
    LET starts == { s \in from..Len(body) : DateLineAt(body, s) }
    IN IF starts = {} THEN <<>>
       ELSE LET s == Min(starts)
                t == FirstSolid(body, s)
            IN <<[index |-> s, tok |-> t]>>
                 \o dateLineMatches(body, LineEnd(body, t) + 1)

\* b.text.replace(/(\n\s*=+\s*)+\s*$/g, ""): the tail from position i is
\* made of separator lines, each '=' run after a newline
SeparatorTail(s, i) ==
    /\ s[i] = NL
    /\ \A q \in i..Len(s) : IsWs(s[q]) \/ s[q].k = "eq"
    /\ \E q \in i..Len(s) : s[q].k = "eq"
    /\ \A q \in i..Len(s) :
          s[q].k = "eq" /\ s[q - 1].k # "eq" =>
             LET before == { r \in i..(q - 1) : s[r].k = "eq" }
                 lo == IF before = {} THEN i ELSE Max(before) + 1
             IN \E n \in lo..(q - 1) : s[n] = NL

StripSeparators(s) ==
    LET at == { i \in 1..Len(s) : SeparatorTail(s, i) }
    IN IF at = {} THEN s ELSE SubSeq(s, 1, Min(at) - 1)

cleanBlock(text) == TrimEnd(StripSeparators(TrimEnd(text)))

separator == <<NL, NL, Eq(14), NL, NL>>

\* the blocks of the body: one per date line match, up to the next match
pruneBlocks(body, headerYear, headerMonthIndex) ==
    LET matches == dateLineMatches(body, 1)
    IN [i \in 1..Len(matches) |->
          LET start == matches[i].index
              end == IF i + 1 <= Len(matches) THEN matches[i + 1].index - 1
                     ELSE Len(body)
              day == body[matches[i].tok].a
              monthIndexFromLine == body[matches[i].tok].b - 1
              monthIndex == IF monthIndexFromLine >= 0 /\ monthIndexFromLine <= 11
                            THEN monthIndexFromLine
                            ELSE IF headerMonthIndex = Undefined THEN 0
                                 ELSE headerMonthIndex
          IN [date |-> NewDate(headerYear, monthIndex, day),
              text |-> SubSeq(body, start, end)]]

\* a filter that keeps every block
keepBlockAll(b, today0) == TRUE

\* a filter that drops the block dated today
keepBlockLater(b, today0) == b.date.day > today0.day

keepBlock(b, today0) == TimeGeq(b.date, today0)

\* blocks.filter((b) => b.date.getTime() >= today0.getTime())
RECURSIVE keptBlocks(_, _)
keptBlocks(blocks, today0) ==
    IF blocks = <<>> THEN <<>>
    ELSE (IF keepBlock(Head(blocks), today0) THEN <<Head(blocks)>> ELSE <<>>)
           \o keptBlocks(Tail(blocks), today0)

pruneGuardDutyList(rawText, todayDate, currentYear) ==
    LET text == Trim([i \in 1..Len(rawText) |->
                        IF rawText[i] = CRLF THEN NL ELSE rawText[i]])
        h == headerMatch(text)
        headerLine == IF h = 0 THEN <<>> ELSE <<text[h]>>
        headerYear == IF h = 0 THEN currentYear ELSE text[h].b
        headerMonthIndex == IF h = 0 THEN Undefined ELSE monthNameToIndex(text[h].a)
        body == IF h = 0 THEN text ELSE TrimStart(RemoveFirst(text, text[h]))
        blocks == pruneBlocks(body, headerYear, headerMonthIndex)
        kept == keptBlocks(blocks, startOfDay(todayDate))
        cleaned == [i \in 1..Len(kept) |-> cleanBlock(kept[i].text)]
        rebuiltBody == Join(cleaned, separator)
    IN IF text = <<>> THEN <<>>
       ELSE IF Len(blocks) = 0 THEN text
       ELSE IF Len(cleaned) = 0 THEN headerLine
       ELSE IF h = 0 THEN rebuiltBody
       ELSE headerLine \o <<NL, NL>> \o rebuiltBody

----------------------------------------------------------------------------
(* The parts of the state a specification leaves alone                     *)

PruneIdle ==
    /\ raw = <<>>
    /\ nowYear = 2026
    /\ pruned = <<>>
    /\ repruned = <<>>
    /\ pstage = "idle"

NightIdle ==
    /\ psNightStrength = <<>>
    /\ blk210 = ""
    /\ nightOut = [psNightStrengthAdj |-> <<>>, blk420 |-> ""]
    /\ nstage = "idle"

NoToast == [kind |-> "none", message |-> ""]

HomeIdle ==
    /\ generated = ""
    /\ toast = NoToast
    /\ logs = <<>>
    /\ generateCalls = 0
    /\ steps = 0

FormIdle ==
    /\ selectedType = "offAwarded"
    /\ fieldValues = [key \in {} |-> ""]
    /\ loading = FALSE
    /\ pending = "none"

GuardIdle ==
    /\ entries = <<>>
    /\ selectedMonth = 0
    /\ selectedYear = 2026
    /\ guardSaved = <<>>
    /\ gphase = "unmounted"
    /\ guardLoaded = <<>>

RoutineIdle ==
    /\ hydrated = FALSE
    /\ spanDays = 2
    /\ regEntries = <<>>
    /\ routineSaved = <<>>
    /\ safetyMessage = ""
    /\ eventUpdate = ""
    /\ routineGuardDutyText = <<>>

----------------------------------------------------------------------------
(* The pruner applied to a pasted list, and again to its own output        *)

MaxLines == 3

\* line shapes of a pasted guard-duty list
PruneShapes ==
    << <<>>,                                  \* an empty line
       <<Header(1, 2026)>>,                   \* GUARD DUTY FEBRUARY 2026
       <<DateTok(7, 2), SP, Paren(6)>>,       \* 7/2 (SATURDAY)
       <<SP, DateTok(9, 2)>>,                 \*  9/2
       <<DateTok(31, 13)>>,                   \* 31/13: no such month
       <<Word(0), SP>>,                       \* G:
       <<Eq(10)>>,                            \* ==========
       <<DateTok(8, 2), Word(0)>> >>          \* 8/2G: no date line

LineChoices(n) == UNION { [1..k -> 1..Len(PruneShapes)] : k \in 0..n }

PastedTexts ==
    { Join([i \in DOMAIN f |-> PruneShapes[f[i]]], eol) :
        f \in LineChoices(MaxLines), eol \in {<<NL>>, <<CRLF>>} }

\* the days on which the list is pruned (with a time of day), and the
\* years new Date().getFullYear() can give
PruneDays ==
    { [day |-> DaysFromCivil(2026, 2, 7), tod |-> 1],
      [day |-> DaysFromCivil(2026, 2, 8), tod |-> 0],
      [day |-> DaysFromCivil(2026, 1, 31), tod |-> 1] }
PruneYears == {2025, 2026}

PruneInit ==
    /\ raw \in PastedTexts
    /\ today \in PruneDays
    /\ nowYear \in PruneYears
    /\ pruned = <<>>
    /\ repruned = <<>>
    /\ pstage = "pasted"
    /\ NightIdle
    /\ HomeIdle
    /\ FormIdle
    /\ GuardIdle
    /\ RoutineIdle

\* RoutineOrderUI.handleGenerate's call of the pruner on the pasted text
Prune ==
    /\ pstage = "pasted"
    /\ pruned' = pruneGuardDutyList(raw, today, nowYear)
    /\ pstage' = "pruned"
    /\ UNCHANGED <<raw, today, nowYear, repruned, nightVars, homeVars, formVars, guardVars, routineVars>>

\* the pruner applied to its own output
PruneAgain ==
    /\ pstage = "pruned"
    /\ repruned' = pruneGuardDutyList(pruned, today, nowYear)
    /\ pstage' = "repruned"
    /\ UNCHANGED <<raw, today, nowYear, pruned, nightVars, homeVars, formVars, guardVars, routineVars>>

PruneNext == Prune \/ PruneAgain

SpecPrune == PruneInit /\ [][PruneNext]_vars

\* C1: pruning is idempotent: pruning the pruner's output again, for the
\* same today, gives that output back.
C1_Idempotent == pstage = "repruned" => repruned = pruned

----------------------------------------------------------------------------
(* C2: what the pruner keeps, read off the lines of the text               *)

IsBlankLine(line) == \A i \in 1..Len(line) : IsWs(line[i])

\* a line of '=' characters only, white space around them aside
IsSeparatorLine(line) ==
    /\ Cardinality({ i \in 1..Len(line) : line[i].k = "eq" }) = 1
    /\ \A i \in 1..Len(line) : IsWs(line[i]) \/ line[i].k = "eq"

\* a line that begins, after optional white space, with the digits "d/m"
IsDateLine(line) ==
    LET t == FirstSolid(line, 1)
    IN /\ t <= Len(line)
       /\ line[t].k = "date"
       /\ (t = Len(line) \/ ~StartsWithWordChar(line[t + 1]))

IsHeaderLine(line) ==
    /\ line # <<>>
    /\ line[1].k = "hdr"
    /\ \A i \in 2..Len(line) : IsWs(line[i])

\* the pasted text with its line ends normalised and its ends trimmed
PastedText == Trim([i \in 1..Len(raw) |-> IF raw[i] = CRLF THEN NL ELSE raw[i]])

\* the header line of the pasted text, <<>> when it has none
PastedHeader ==
    LET ls == Lines(PastedText)
        hs == { i \in 1..Len(ls) : IsHeaderLine(ls[i]) }
    IN IF hs = {} THEN <<>> ELSE <<ls[Min(hs)][1]>>

\* the lines below the header: the header's text is taken out of the text
BodyLines ==
    IF PastedHeader = <<>> THEN Lines(PastedText)
    ELSE Lines(RemoveFirst(PastedText, PastedHeader[1]))

RECURSIVE SortedIdx(_)
SortedIdx(S) == IF S = {} THEN <<>> ELSE <<Min(S)>> \o SortedIdx(S \ {Min(S)})

\* the indices of the date lines among the lines ls, in ascending order
DateLineIdx(ls) == SortedIdx({ i \in 1..Len(ls) : IsDateLine(ls[i]) })

\* block k: its date line and the lines up to the next date line
BlockLines(ls, idx, k) ==
    SubSeq(ls, idx[k], IF k < Len(idx) THEN idx[k + 1] - 1 ELSE Len(ls))

\* the calendar day a date line stands for: day and month from the line
\* (the header's month, or January, when the line's month is no month), the
\* year from the header, or the current year
BlockDay(line, header) ==
    LET d == line[FirstSolid(line, 1)]
        year == IF header = <<>> THEN nowYear ELSE header[1].b
        month == IF d.b \in 1..12 THEN d.b
                 ELSE IF header = <<>> \/ header[1].a \notin 0..11 THEN 1
                 ELSE header[1].a + 1
    IN DaysFromCivil(year, month, 1) + d.a - 1

KeptBlocks(ls, idx, header) ==
    SortedIdx({ k \in 1..Len(idx) : BlockDay(ls[idx[k]], header) >= today.day })

\* a block without its trailing blank and separator lines, and without the
\* white space that ends its last line
RECURSIVE DropTrailingLines(_)
DropTrailingLines(ls) ==
    IF ls = <<>> THEN <<>>
    ELSE IF IsBlankLine(ls[Len(ls)]) \/ IsSeparatorLine(ls[Len(ls)])
         THEN DropTrailingLines(SubSeq(ls, 1, Len(ls) - 1))
         ELSE [ls EXCEPT ![Len(ls)] = TrimEnd(ls[Len(ls)])]

KeptLines(ls, idx, k) == DropTrailingLines(BlockLines(ls, idx, k))

\* block k opens the body: only blank lines come before its date line
OpensBody(ls, idx, k) == \A i \in 1..(idx[k] - 1) : IsBlankLine(ls[i])

KeptLinesTrimmed(ls, idx, k) ==
    LET kl == KeptLines(ls, idx, k)
    IN IF OpensBody(ls, idx, k) THEN [kl EXCEPT ![1] = TrimStart(kl[1])] ELSE kl

\* the output below its header line, cut at the fourteen-'=' lines, each
\* piece without the blank lines around it
RECURSIVE SplitLines(_, _)
SplitLines(ls, sepLine) ==
    LET at == { i \in 1..Len(ls) : ls[i] = sepLine }
    IN IF at = {} THEN <<ls>>
       ELSE <<SubSeq(ls, 1, Min(at) - 1)>>
              \o SplitLines(SubSeq(ls, Min(at) + 1, Len(ls)), sepLine)

StripBlankLines(ls) ==
    LET solid == { i \in 1..Len(ls) : ~IsBlankLine(ls[i]) }
    IN IF solid = {} THEN <<>> ELSE SubSeq(ls, Min(solid), Max(solid))

OutputBlocks(out, header) ==
    LET ls == Lines(out)
        below == IF header # <<>> /\ ls[1] = header THEN Tail(ls) ELSE ls
        pieces == SplitLines(below, <<Eq(14)>>)
    IN [i \in 1..Len(pieces) |-> StripBlankLines(pieces[i])]

\* the output keeps the header and holds, in their order, the blocks whose
\* day is on or after today, each as Expected(ls, idx, k) gives its lines
KeepsBlocksAs(Expected(_, _, _)) ==
    LET header == PastedHeader
        ls == BodyLines
        idx == DateLineIdx(ls)
        kept == KeptBlocks(ls, idx, header)
    IN pstage # "pasted" /\ Len(idx) > 0 =>
          /\ header # <<>> => Lines(pruned)[1] = header
          /\ IF kept = <<>> THEN OutputBlocks(pruned, header) = << <<>> >>
             ELSE OutputBlocks(pruned, header)
                    = [i \in 1..Len(kept) |-> Expected(ls, idx, kept[i])]

\* C2 as stated: a block is kept iff its day is on or after today; the kept
\* blocks come out in their order, every line unchanged but for trailing
\* white space and trailing separator lines.
C2_KeptUnchanged == KeepsBlocksAs(KeptLines)

\* C2 as amended: the same, except that the white space before the date
\* line that opens the body is dropped as well.
C2_KeptTrimmed == KeepsBlocksAs(KeptLinesTrimmed)

\* a pruned list with a block kept after a dropped one, the kept block
\* having lost a trailing separator line
C2_Witness ==
    LET ls == BodyLines
        idx == DateLineIdx(ls)
        kept == KeptBlocks(ls, idx, PastedHeader)
    IN /\ pstage = "pruned"
       /\ Len(kept) >= 1
       /\ Len(kept) < Len(idx)
       /\ \E i \in 1..Len(kept) :
             Len(KeptLines(ls, idx, kept[i])) < Len(BlockLines(ls, idx, kept[i]))

----------------------------------------------------------------------------
(* The night-strength adjuster                                             *)

\* the labels of the roster, each written with its colon in the text
LABELS == <<"STAYIN", "STAYOUT", "OS", "OTHERS", "RSO", "RSI">>
LabelId(name) == CHOOSE i \in 1..Len(LABELS) : LABELS[i] = name
Lab(name) == Tok("label", LabelId(name), 0)   \* "<name>:"
Num(v) == Tok("num", v, 0)                    \* a run of digits of value v

\* Number(s) of a string: the blank strings are 0, a run of digits is its
\* value, anything else is NaN
NumberRange == 0..99 \cup {123, 1320, 2460, 12345, 100000000}
IsNaNNumber(s) == s \notin {"", " "} /\ \A n \in NumberRange : ToString(n) # s
Number(s) ==
    IF s \in {"", " "} THEN 0 ELSE CHOOSE n \in NumberRange : ToString(n) = s

\* the white space around position j: the first position of the run that
\* ends before j, and the last position of the run that starts at j
WsRunStart(s, j) == Min({ r \in 1..j : \A q \in r..(j - 1) : IsWs(s[q]) })
WsRunEnd(s, j) == Max({ b \in (j - 1)..Len(s) : \A q \in j..b : IsWs(s[q]) })

NoMatch == [start |-> 0, end |-> 0, value |-> 0]

\* /^\s*LABEL:\s*(\d+)\s*$/m matched with its label at token j: the match
\* starts at the leftmost line start from which only white space leads to
\* the label, and ends at the rightmost line end that only white space
\* separates from the digits; end is the position after the match
LabelMatchAt(s, j) ==
    LET r == WsRunStart(s, j)
        before == { q \in r..(j - 1) : s[q] = NL }
        start == IF r = 1 THEN 1
                 ELSE IF before # {} THEN Min(before) + 1
                 ELSE 0
        n == WsRunEnd(s, j + 1) + 1
        b == WsRunEnd(s, n + 1)
        after == { q \in (n + 1)..b : s[q] = NL }
        end == IF b = Len(s) THEN Len(s) + 1
               ELSE IF after # {} THEN Max(after)
               ELSE 0
    IN IF start > 0 /\ n <= Len(s) /\ s[n].k = "num" /\ end > 0
       THEN [start |-> start, end |-> end, value |-> s[n].a]
       ELSE NoMatch

\* String.prototype.match: the first match in the text
LabelMatch(s, name) ==
    LET at == { j \in 1..Len(s) : s[j] = Lab(name) /\ LabelMatchAt(s, j) # NoMatch }
    IN IF at = {} THEN NoMatch ELSE LabelMatchAt(s, Min(at))

\* Number(text.match(...)?.[1] ?? 0)
matchNumber(s, name) == LabelMatch(s, name).value

\* String.prototype.replace of the first match
replaceLabel(s, name, value) ==
    LET m == LabelMatch(s, name)
    IN IF m = NoMatch THEN s
       ELSE SubSeq(s, 1, m.start - 1) \o <<Lab(name), SP, Num(value)>>
            \o SubSeq(s, m.end, Len(s))

movedLabels == <<"OS", "OTHERS", "RSO", "RSI">>

RECURSIVE SumOver(_, _)
SumOver(s, names) ==
    IF names = <<>> THEN 0
    ELSE matchNumber(s, Head(names)) + SumOver(s, Tail(names))

\* the adjusted roster and BLK420 of templates.nightStrength.generate
nightStrengthGenerate(ps, blk) ==
    LET stayIn == matchNumber(ps, "STAYIN")
        stayOut == matchNumber(ps, "STAYOUT")
        moved == SumOver(ps, movedLabels)
        newStayOut == stayOut + moved
        blk420 == IF IsNaNNumber(blk) THEN "NaN" ELSE ToString(stayIn - Number(blk))
        a1 == replaceLabel(ps, "OS", 0)
        a2 == replaceLabel(a1, "OTHERS", 0)
        a3 == replaceLabel(a2, "RSO", 0)
        a4 == replaceLabel(a3, "RSI", 0)
        a5 == replaceLabel(a4, "STAYOUT", newStayOut)
    IN [psNightStrengthAdj |-> a5, blk420 |-> blk420]

MaxRosterLines == 3

\* line shapes of a pasted roster
RosterShapes ==
    << <<Lab("STAYIN"), SP, Num(40)>>,            \* STAYIN: 40
       <<Lab("STAYOUT"), SP, Num(5)>>,            \* STAYOUT: 5
       <<Lab("OS"), SP, Num(2)>>,                 \* OS: 2
       <<SP, Lab("RSO"), SP, Num(1), SP>>,        \* an indented " RSO: 1 "
       <<Lab("OTHERS"), Num(4)>>,                 \* OTHERS:4
       <<Lab("OS")>>,                             \* OS: with nothing after it
       <<Num(3)>>,                                \* 3
       <<>>,                                      \* an empty line
       <<SP>>,                                    \* a line of white space
       <<Word(5)>>,                               \* REMARKS
       <<Word(5), SP, Lab("RSI"), SP, Num(1)>>,   \* REMARKS RSI: 1
       <<Lab("RSI"), SP, Num(1), SP, Word(5)>> >> \* RSI: 1 REMARKS

RosterChoices(n) == UNION { [1..k -> 1..Len(RosterShapes)] : k \in 0..n }

PastedRosters ==
    { Join([i \in DOMAIN f |-> RosterShapes[f[i]]], <<NL>>) :
        f \in RosterChoices(MaxRosterLines) }

Blk210Strengths == {"12", "50"}

NightInit ==
    /\ psNightStrength \in PastedRosters
    /\ blk210 \in Blk210Strengths
    /\ nightOut = [psNightStrengthAdj |-> <<>>, blk420 |-> ""]
    /\ nstage = "pasted"
    /\ today = [day |-> DaysFromCivil(2026, 2, 7), tod |-> 1]
    /\ PruneIdle
    /\ HomeIdle
    /\ FormIdle
    /\ GuardIdle
    /\ RoutineIdle

NightGenerate ==
    /\ nstage = "pasted"
    /\ nightOut' = nightStrengthGenerate(psNightStrength, blk210)
    /\ nstage' = "generated"
    /\ UNCHANGED <<psNightStrength, blk210, pruneVars, homeVars, formVars, guardVars, routineVars>>

NightNext == NightGenerate

SpecNight == NightInit /\ [][NightNext]_vars

----------------------------------------------------------------------------
(* C7, C8: the adjusted roster, read off the lines of the pasted roster    *)

\* a line of the form "LABEL: <integer>", with optional white space around
IsLabelLine(line, name) ==
    LET t == Trim(line)
    IN /\ Len(t) >= 2
       /\ t[1] = Lab(name)
       /\ t[Len(t)].k = "num"
       /\ \A i \in 2..(Len(t) - 1) : t[i] = SP

LabelLineValue(line) == Trim(line)[Len(Trim(line))].a

LabelLinesOf(ls, name) == { i \in 1..Len(ls) : IsLabelLine(ls[i], name) }

\* the count a roster gives for a label: the integer of its line, 0 without
RosterCount(ls, name) ==
    IF LabelLinesOf(ls, name) = {} THEN 0
    ELSE LabelLineValue(ls[Min(LabelLinesOf(ls, name))])

\* the lines of the output for a label all read the given value, and there
\* is such a line
LabelReads(ls, name, value) ==
    /\ LabelLinesOf(ls, name) # {}
    /\ \A i \in LabelLinesOf(ls, name) : LabelLineValue(ls[i]) = value

OneLinePerLabel(ls) ==
    \A i \in 1..Len(LABELS) : Cardinality(LabelLinesOf(ls, LABELS[i])) <= 1

\* C7: for a roster with at most one "LABEL: <integer>" line per label,
\* BLK420 is STAYIN minus the Block 210 strength, the STAYOUT line reads
\* STAYOUT + OS + OTHERS + RSO + RSI, and the OS, OTHERS, RSO and RSI lines
\* read 0.
C7_NightStrengthValues ==
    LET ls == Lines(psNightStrength)
        out == Lines(nightOut.psNightStrengthAdj)
        sum == RosterCount(ls, "STAYOUT") + RosterCount(ls, "OS")
               + RosterCount(ls, "OTHERS") + RosterCount(ls, "RSO")
               + RosterCount(ls, "RSI")
    IN nstage = "generated" /\ OneLinePerLabel(ls) =>
        /\ nightOut.blk420 = ToString(RosterCount(ls, "STAYIN") - Number(blk210))
        /\ LabelLinesOf(ls, "STAYOUT") # {} => LabelReads(out, "STAYOUT", sum)
        /\ \A i \in 1..Len(movedLabels) :
              LabelLinesOf(ls, movedLabels[i]) # {} => LabelReads(out, movedLabels[i], 0)

\* the lines the adjuster rewrites: the first line of each of the five labels
RewrittenLines(ls) ==
    { Min(LabelLinesOf(ls, name)) :
        name \in { n \in {"OS", "OTHERS", "RSO", "RSI", "STAYOUT"} : LabelLinesOf(ls, n) # {} } }

\* C8: the adjusted roster has as many lines as the pasted one, and every
\* line other than the five rewritten label lines is the same at the same
\* position.
C8_OtherLinesVerbatim ==
    LET ls == Lines(psNightStrength)
        out == Lines(nightOut.psNightStrengthAdj)
    IN nstage = "generated" =>
        /\ Len(out) = Len(ls)
        /\ \A i \in 1..Len(ls) : i \notin RewrittenLines(ls) => out[i] = ls[i]

----------------------------------------------------------------------------
(* Calendar fields of a Date, and the text of a token sequence             *)

MONTHS ==
    <<"January", "February", "March", "April", "May", "June", "July",
      "August", "September", "October", "November", "December">>

DAY_NAMES ==
    <<"SUNDAY", "MONDAY", "TUESDAY", "WEDNESDAY", "THURSDAY", "FRIDAY", "SATURDAY">>

\* String.prototype.toUpperCase, on the strings with lower-case letters
\* that the model uses; every other string of the model is its own upper case
UpperCased ==
    [s \in {MONTHS[i] : i \in 1..12} |->
        LET i == CHOOSE j \in 1..12 : MONTHS[j] = s
        IN <<"JANUARY", "FEBRUARY", "MARCH", "APRIL", "MAY", "JUNE", "JULY",
             "AUGUST", "SEPTEMBER", "OCTOBER", "NOVEMBER", "DECEMBER">>[i]]
    @@ ("Tan Ah Kow" :> "TAN AH KOW") @@ ("fever" :> "FEVER") @@ ("Stay safe" :> "STAY SAFE")
toUpperCase(s) == IF s \in DOMAIN UpperCased THEN UpperCased[s] ELSE s

\* the civil date of a day number
CivilFromDays(z0) ==
    LET z == z0 + 719468
        era == z \div 146097
        doe == z - era * 146097
        yoe == (doe - doe \div 1460 + doe \div 36524 - doe \div 146096) \div 365
        doy == doe - (365 * yoe + yoe \div 4 - yoe \div 100)
        mp == (5 * doy + 2) \div 153
        d == doy - (153 * mp + 2) \div 5 + 1
        m == IF mp < 10 THEN mp + 3 ELSE mp - 9
    IN [year |-> yoe + era * 400 + (IF m <= 2 THEN 1 ELSE 0), month |-> m, day |-> d]

getDate(d) == CivilFromDays(d.day).day
getMonth(d) == CivilFromDays(d.day).month - 1
getFullYear(d) == CivilFromDays(d.day).year

\* the words of the texts
Words == <<"G:", "NUMBER:", "2IC:", "3IC:", "4IC:", "REMARKS">>
W(text) == Word((CHOOSE i \in 1..Len(Words) : Words[i] = text) - 1)

RECURSIVE Repeat(_, _)
Repeat(str, n) == IF n = 0 THEN "" ELSE str \o Repeat(str, n - 1)

TokText(t) ==
    CASE t.k = "nl" -> "\n"
      [] t.k = "crlf" -> "\r\n"
      [] t.k = "sp" -> " "
      [] t.k = "eq" -> Repeat("=", t.a)
      [] t.k = "date" -> ToString(t.a) \o "/" \o ToString(t.b)
      [] t.k = "hdr" -> "GUARD DUTY "
                        \o (IF t.a \in 0..11 THEN toUpperCase(MONTHS[t.a + 1]) ELSE "FOO")
                        \o " " \o ToString(t.b)
      [] t.k = "word" -> Words[t.a + 1]
      [] t.k = "paren" -> "(" \o DAY_NAMES[t.a + 1] \o ")"
      [] t.k = "label" -> LABELS[t.a] \o ":"
      [] t.k = "num" -> ToString(t.a)

\* the text of a token sequence: the texts of its halves, one after the other
RECURSIVE Text(_)
Text(s) ==
    IF s = <<>> THEN ""
    ELSE IF Len(s) = 1 THEN TokText(s[1])
    ELSE Text(SubSeq(s, 1, Len(s) \div 2)) \o Text(SubSeq(s, Len(s) \div 2 + 1, Len(s)))

----------------------------------------------------------------------------
(* GuardDutyUI                                                             *)

IC_TYPES == <<"2IC", "3IC", "4IC">>
indexOf(seq, x) == CHOOSE i \in 1..Len(seq) : seq[i] = x

\* Array.prototype.sort with a comparator that subtracts keys: a stable
\* sort; keys[i] is the key of seq[i]
SortByKeys(seq, keys) ==
    LET n == Len(seq)
        before(i) == { j \in 1..n : keys[j] < keys[i] \/ (keys[j] = keys[i] /\ j < i) }
    IN [k \in 1..n |-> seq[CHOOSE i \in 1..n : Cardinality(before(i)) = k - 1]]

\* Date.prototype.getTime, on the dates of one month of the model
getTime(d) == d.day * 24 + d.tod

\* Date.prototype.toDateString
toDateString(d) == d.day

\* addDate's check against the entries of the render that made the handler
dateExists(rendered, date) ==
    \E i \in 1..Len(rendered) : toDateString(rendered[i].date) = toDateString(date)

\* the updater addDate queues
addDateUpdater(prev, date) ==
    LET added == Append(prev, [date |-> date, icTypes |-> <<>>, numGuards |-> 3])
    IN SortByKeys(added, [i \in 1..Len(added) |-> getTime(added[i].date)])

removeDateUpdater(prev, index) ==
    LET keep == { i \in 1..Len(prev) : i # index }
    IN [k \in 1..Cardinality(keep) |->
            prev[CHOOSE i \in keep : Cardinality({ j \in keep : j < i }) = k - 1]]

updateEntryUpdater(prev, index, value) ==
    [i \in 1..Len(prev) |-> IF i = index THEN [prev[i] EXCEPT !.numGuards = value] ELSE prev[i]]

\* the type is added at the end, and nothing is taken away
toggledTypesAppended(icTypes, ic) == Append(icTypes, ic)

\* newTypes of toggleIC
toggledTypes(icTypes, ic) ==
    LET has == \E i \in 1..Len(icTypes) : icTypes[i] = ic
        added == Append(icTypes, ic)
    IN IF has THEN SelectSeq(icTypes, LAMBDA t : t # ic)
       ELSE SortByKeys(added, [i \in 1..Len(added) |-> indexOf(IC_TYPES, added[i])])

toggleICUpdater(prev, index, ic) ==
    [i \in 1..Len(prev) |->
        IF i = index THEN [prev[i] EXCEPT !.icTypes = toggledTypes(prev[i].icTypes, ic)]
        ELSE prev[i]]

\* the slot GuardDutyUI.handleGenerate writes for an in-charge or a guard
slotText(title) == <<W(title), SP, NL, W("NUMBER:"), SP, NL, SP, NL>>

RECURSIVE slotsText(_)
slotsText(titles) ==
    IF titles = <<>> THEN <<>> ELSE slotText(Head(titles)) \o slotsText(Tail(titles))

\* a separator after every entry, the last one included
entryTextSeparated(entry, isLast) ==
    <<DateTok(getDate(entry.date), getMonth(entry.date) + 1), SP, Paren(getDay(entry.date)), NL>>
    \o slotsText([i \in 1..Len(entry.icTypes) |-> entry.icTypes[i] \o ":"])
    \o slotsText([g \in 1..entry.numGuards |-> "G:"])
    \o <<Eq(10), NL>>

entryText(entry, isLast) ==
    <<DateTok(getDate(entry.date), getMonth(entry.date) + 1), SP, Paren(getDay(entry.date)), NL>>
    \o slotsText([i \in 1..Len(entry.icTypes) |-> entry.icTypes[i] \o ":"])
    \o slotsText([g \in 1..entry.numGuards |-> "G:"])
    \o (IF isLast THEN <<>> ELSE <<Eq(10), NL>>)

RECURSIVE entriesText(_, _)
entriesText(es, idx) ==
    IF idx > Len(es) THEN <<>>
    ELSE entryText(es[idx], idx = Len(es)) \o entriesText(es, idx + 1)

\* the text GuardDutyUI.handleGenerate passes to onGenerate
guardDutyText(es, month, year) ==
    TrimEnd(<<Header(month, year), NL>> \o entriesText(es, 1))

noEntriesNever(es) == FALSE
noEntries(es) == Len(es) = 0

ErrorToast(message) == [kind |-> "error", message |-> message]
SuccessToast(message) == [kind |-> "success", message |-> message]

MaxGuardEvents == 4

GuardDays == { NewDate(2026, 1, 7), NewDate(2026, 1, 9), NewDate(2026, 2, 1) }
GuardCounts == {1, 3}
GuardMonths == {1, 2}

\* states the save effect stored in an earlier session
SavedGuardDuty ==
    { [selectedMonth |-> getMonth(today), selectedYear |-> getFullYear(today), entries |-> <<>>],
      [selectedMonth |-> 1, selectedYear |-> 2026,
       entries |-> <<[date |-> NewDate(2026, 1, 9), icTypes |-> <<"2IC">>, numGuards |-> 3]>>] }

\* what JSON.stringify leaves under the storage key, and an item that
\* JSON.parse rejects
guardSnapshot(es, month, year) ==
    <<[ok |-> TRUE, selectedMonth |-> month, selectedYear |-> year, entries |-> es]>>

GuardStored ==
    { <<>>, <<[ok |-> FALSE, selectedMonth |-> 0, selectedYear |-> 0, entries |-> <<>>]>> }
    \cup { guardSnapshot(s.entries, s.selectedMonth, s.selectedYear) : s \in SavedGuardDuty }

\* the state of the first render
GuardInit ==
    /\ today \in { [day |-> DaysFromCivil(2026, 2, 7), tod |-> 1] }
    /\ entries = <<>>
    /\ selectedMonth = getMonth(today)
    /\ selectedYear = getFullYear(today)
    /\ guardSaved \in GuardStored
    /\ gphase = "unmounted"
    /\ guardLoaded = <<>>
    /\ HomeIdle
    /\ raw = <<>> /\ nowYear = getFullYear(today) /\ pruned = <<>> /\ repruned = <<>>
    /\ pstage = "idle"
    /\ NightIdle
    /\ RoutineIdle
    /\ selectedType = "guardDuty"
    /\ fieldValues = [key \in {} |-> ""]
    /\ loading = FALSE
    /\ pending = "none"

GuardMountFrame ==
    UNCHANGED <<pruneVars, nightVars, homeVars, formVars, routineVars>>

\* the effects of the first render: the load effect reads the item and
\* queues the state it holds, then the save effect stores the state of the
\* first render
GuardMount ==
    /\ selectedType = "guardDuty"
    /\ gphase = "unmounted"
    /\ LET usable == IF guardSaved = <<>> THEN FALSE ELSE guardSaved[1].ok
       IN /\ guardLoaded' = IF usable THEN guardSaved ELSE <<>>
          /\ gphase' = IF usable THEN "loaded" ELSE "mounted"
    /\ guardSaved' = guardSnapshot(entries, selectedMonth, selectedYear)
    /\ UNCHANGED <<entries, selectedMonth, selectedYear>>
    /\ GuardMountFrame

\* the render with the state the load effect queued, and its save effect
GuardHydrate ==
    /\ selectedType = "guardDuty"
    /\ gphase = "loaded"
    /\ entries' = guardLoaded[1].entries
    /\ selectedMonth' = guardLoaded[1].selectedMonth
    /\ selectedYear' = guardLoaded[1].selectedYear
    /\ guardSaved' = guardSnapshot(entries', selectedMonth', selectedYear')
    /\ guardLoaded' = <<>>
    /\ gphase' = "mounted"
    /\ GuardMountFrame

GuardEvent ==
    /\ selectedType = "guardDuty"
    /\ gphase = "mounted"
    /\ steps < MaxGuardEvents
    /\ steps' = steps + 1
    /\ UNCHANGED <<pruneVars, nightVars, formVars, routineVars, gphase, guardLoaded>>

\* the save effect of the render an event causes: it runs when the month,
\* the year or the entries changed
guardSave ==
    guardSaved' = IF <<selectedMonth', selectedYear', entries'>> # <<selectedMonth, selectedYear, entries>>
                  THEN guardSnapshot(entries', selectedMonth', selectedYear')
                  ELSE guardSaved

\* the calendar's onSelect
AddDate ==
    /\ GuardEvent
    /\ \E date \in GuardDays :
        IF dateExists(entries, date)
        THEN /\ toast' = ErrorToast("This date is already added.")
             /\ UNCHANGED entries
        ELSE /\ entries' = addDateUpdater(entries, date)
             /\ UNCHANGED toast
    /\ UNCHANGED <<selectedMonth, selectedYear, generated, logs, generateCalls>>
    /\ guardSave

\* two calls of addDate made by the handlers of one render, before the
\* component renders again: both check the entries of that render, and the
\* updaters they queue run one after the other
AddDateTwice ==
    /\ GuardEvent
    /\ \E d1 \in GuardDays, d2 \in GuardDays :
        LET after1 == IF dateExists(entries, d1) THEN entries ELSE addDateUpdater(entries, d1)
            after2 == IF dateExists(entries, d2) THEN after1 ELSE addDateUpdater(after1, d2)
        IN /\ entries' = after2
           /\ toast' = IF dateExists(entries, d1) \/ dateExists(entries, d2)
                       THEN ErrorToast("This date is already added.")
                       ELSE toast
    /\ UNCHANGED <<selectedMonth, selectedYear, generated, logs, generateCalls>>
    /\ guardSave

RemoveDate ==
    /\ GuardEvent
    /\ \E index \in 1..Len(entries) : entries' = removeDateUpdater(entries, index)
    /\ UNCHANGED <<selectedMonth, selectedYear, generated, toast, logs, generateCalls>>
    /\ guardSave

UpdateEntry ==
    /\ GuardEvent
    /\ \E index \in 1..Len(entries), value \in GuardCounts :
        entries' = updateEntryUpdater(entries, index, value)
    /\ UNCHANGED <<selectedMonth, selectedYear, generated, toast, logs, generateCalls>>
    /\ guardSave

ToggleIC ==
    /\ GuardEvent
    /\ \E index \in 1..Len(entries), ic \in {"2IC", "3IC", "4IC"} :
        entries' = toggleICUpdater(entries, index, ic)
    /\ UNCHANGED <<selectedMonth, selectedYear, generated, toast, logs, generateCalls>>
    /\ guardSave

\* the month and year selects, and the calendar's onMonthChange
SelectMonth ==
    /\ GuardEvent
    /\ selectedMonth' \in GuardMonths
    /\ selectedYear' \in {selectedYear, getFullYear(today), getFullYear(today) + 1}
    /\ UNCHANGED <<entries, generated, toast, logs, generateCalls>>
    /\ guardSave

GuardHandleGenerate ==
    /\ GuardEvent
    /\ IF noEntries(entries)
       THEN /\ toast' = ErrorToast("Please add at least one date.")
            /\ UNCHANGED <<generated, logs, generateCalls>>
       ELSE /\ generated' = Text(guardDutyText(entries, selectedMonth, selectedYear))
            /\ generateCalls' = generateCalls + 1
            /\ toast' = SuccessToast("Guard Duty Template Generated!")
            /\ logs' = Append(logs, [template |-> "guardDuty",
                                     fields |-> [month |-> MONTHS[selectedMonth + 1],
                                                 year |-> selectedYear,
                                                 entries |-> Len(entries)],
                                     template_type |-> "Guard Duty Template"])
    /\ UNCHANGED <<entries, selectedMonth, selectedYear>>
    /\ guardSave

\* Home's "Reset to Default" with the guard-duty template, shown with a
\* generated text: the type is set to "" (and to "guardDuty" again by a
\* timer); the render with the type "" reads templates[""].customUI, which
\* throws, and the page does not render again
GuardResetToDefault ==
    /\ selectedType = "guardDuty"
    /\ gphase = "mounted"
    /\ steps < MaxGuardEvents
    /\ steps' = steps + 1
    /\ generated # ""
    /\ guardSaved' = <<>>
    /\ generated' = ""
    /\ toast' = [kind |-> "info", message |-> "Guard duty data cleared"]
    /\ selectedType' = ""
    /\ UNCHANGED <<pruneVars, nightVars, routineVars, entries, selectedMonth, selectedYear,
                   gphase, guardLoaded, fieldValues, loading, pending, logs, generateCalls>>

GuardNext ==
    \/ GuardMount
    \/ GuardHydrate
    \/ AddDate
    \/ AddDateTwice
    \/ RemoveDate
    \/ UpdateEntry
    \/ ToggleIC
    \/ SelectMonth
    \/ GuardHandleGenerate
    \/ GuardResetToDefault

SpecGuard == GuardInit /\ [][GuardNext]_vars

----------------------------------------------------------------------------
(* C9, C10: the guard-duty entries and generation without entries          *)

\* C9: the entries list holds at most one entry per calendar date and is
\* sorted ascending by date, in every state the add, remove, in-charge
\* and guard-count handlers lead to, two addDate calls of one render
\* included.
C9_UniqueSorted ==
    \A i \in 1..Len(entries), j \in 1..Len(entries) :
        i < j => entries[i].date.day < entries[j].date.day

\* C10: generating with no entries shows the "add at least one date" error
\* and changes nothing else: no text goes to onGenerate, the displayed text,
\* the entries, the month and the year stay, and no log record is submitted.
C10_NoEntries ==
    [][GuardHandleGenerate /\ Len(entries) = 0 =>
        /\ toast' = [kind |-> "error", message |-> "Please add at least one date."]
        /\ generateCalls' = generateCalls
        /\ generated' = generated
        /\ entries' = entries
        /\ selectedMonth' = selectedMonth
        /\ selectedYear' = selectedYear
        /\ logs' = logs]_vars

\* a text was generated, the last date was removed, and generating again
\* was refused
C10_Witness ==
    /\ entries = <<>>
    /\ toast = [kind |-> "error", message |-> "Please add at least one date."]
    /\ generated # ""
    /\ Len(logs) = 1

----------------------------------------------------------------------------
(* The template registry of the Home page.  The glyphs of the templates    *)
(* (bullets, pictographs) are written as ASCII text.                       *)

\* a TemplateField: required is "undefined" when the field does not set it,
\* pattern and errorMessage are "" without one, default and showIf are the
\* empty sequence without one
Field(key, label, type) ==
    [key |-> key, label |-> label, type |-> type, required |-> "undefined",
     pattern |-> "", errorMessage |-> "", default |-> <<>>, showIf |-> <<>>]

Patterned(field, pattern, errorMessage) ==
    [field EXCEPT !.pattern = pattern, !.errorMessage = errorMessage]
Defaulted(field, value) == [field EXCEPT !.default = <<value>>]
ShownIf(field, key, equals) == [field EXCEPT !.showIf = <<[key |-> key, equals |-> equals]>>]
NotRequired(field) == [field EXCEPT !.required = "false"]

DECIMAL == "^\\d+(\\.\\d+)?$"
DIGITS == "^\\d+$"
FIVE_DIGITS == "^\\d{5}$"
HHMM == "^([01][0-9]|2[0-3])[0-5][0-9]$"
HHMM_MESSAGE == "Time must be in 24hr format (e.g. 1320)"
TYPE_OFF == "^(Off|Leave|OL - .+)$"
MM_YYYY == "^(0[1-9]|1[0-2])/20\\d{2}$"

rankField == Field("rank", "Rank", "select")
nameField == Field("name", "Name", "input")
recommendedByField == Defaulted(Field("recommendedBy", "Recommended By", "input"), "ME3 Alex")
balanceField == Patterned(Field("balance", "Balance Left", "input"), DECIMAL, "")

offAwardedFields ==
    << rankField,
       nameField,
       Field("offAwardReason", "Reason for Off Awarded", "input"),
       Field("startDate", "Start Date", "date"),
       Field("endDate", "End Date", "date"),
       balanceField,
       recommendedByField >>

offTemplateFields ==
    << rankField,
       nameField,
       Patterned(Field("typeOff", "Type", "input"), TYPE_OFF,
                 "Must be \"Off\", \"Leave\", or \"OL - [country]\""),
       Field("startDate", "Start Date", "date"),
       Field("endDate", "End Date", "date"),
       Field("isHalfDay", "Is Half Day?", "checkbox"),
       ShownIf(Field("timeOff", "AM OFF/PM OFF", "select"), "isHalfDay", "true"),
       balanceField,
       recommendedByField >>

reportSickFields ==
    << Field("newStatus", "Status", "select"),
       rankField,
       nameField,
       Defaulted(Field("location", "Location", "input"), "Sungei Gedong Medical Centre"),
       Field("typeSick", "Status", "select"),
       Field("dateIncident", "Date of Incident", "date"),
       Patterned(Field("startTimeIncident", "Start Time of Incident", "input"), HHMM, HHMM_MESSAGE),
       Field("reasonSick", "Reason for Report", "input"),
       ShownIf(Patterned(Field("endTimeIncident", "End Time of Incident", "input"), HHMM, HHMM_MESSAGE),
               "newStatus", "UPDATED"),
       ShownIf(Field("sickStatus", "Status Sick", "input"), "newStatus", "UPDATED"),
       ShownIf(Patterned(Field("dayStatus", "Number of Days for Status", "input"), DIGITS, ""),
               "newStatus", "UPDATED"),
       NotRequired(ShownIf(Patterned(Field("mcRefNo", "MC Ref No", "input"), DIGITS, ""),
                           "newStatus", "UPDATED")),
       recommendedByField >>

PresentOnly(field) == ShownIf(field, "vehiclePresent", "true")

hullBOSFields ==
    << Patterned(Field("mid", "Vehicle MID", "input"), FIVE_DIGITS, ""),
       Defaulted(Field("vehiclePresent", "Is Vehicle Present?", "checkbox"), "true"),
       ShownIf(Field("vehicleStatus", "Vehicle Not Present Reason", "input"), "vehiclePresent", "false"),
       Defaulted(Field("vehicleLocation", "Vehicle Location", "input"), "MSVS Level "),
       PresentOnly(Field("bosDate", "Date of BOS", "date")),
       PresentOnly(Patterned(Field("bosTime", "Time of BOS", "input"), HHMM, HHMM_MESSAGE)),
       PresentOnly(Patterned(Field("odo", "Odometer", "input"), DECIMAL, "")),
       PresentOnly(Patterned(Field("eh", "Engine Hour", "input"), DIGITS, "")),
       PresentOnly(Patterned(Field("auxPercent", "Auxiliary Battery Percent", "input"), DIGITS, "")),
       PresentOnly(Patterned(Field("auxVolt", "Auxiliary Battery", "input"), DECIMAL, "")),
       PresentOnly(Patterned(Field("starterPercent", "Starter Battery Percent", "input"), DIGITS, "")),
       PresentOnly(Patterned(Field("starterVolt", "Starter Battery", "input"), DECIMAL, "")),
       PresentOnly(Patterned(Field("fuelPercent", "Fuel Percent", "input"), DIGITS, "")),
       PresentOnly(Patterned(Field("fuelLitre", "Fuel Litre", "input"), DIGITS, "")),
       PresentOnly(Patterned(Field("afesExpiry",
                                   "AFES Expiry (Remember it is +5 years from the labelled AFES)",
                                   "input"), MM_YYYY, "")),
       NotRequired(PresentOnly(Field("faults", "Faults", "textarea"))) >>

nightStrengthFields ==
    << rankField,
       nameField,
       Field("psNightStrength", "PS Night Strength", "textarea"),
       Field("blk210", "Blk 210 Strength", "input") >>

\* Object.keys(templates)
TemplateKeys ==
    <<"offAwarded", "offTemplate", "reportSick", "hullBOS", "nightStrength",
      "guardDuty", "routineOrder">>

templates ==
    [offAwarded |-> [name |-> "Off Awarded", fields |-> offAwardedFields, customUI |-> FALSE],
     offTemplate |-> [name |-> "Leave/Off Application Template", fields |-> offTemplateFields,
                      customUI |-> FALSE],
     reportSick |-> [name |-> "RSI/RSO/MA Reporting Template", fields |-> reportSickFields,
                     customUI |-> FALSE],
     hullBOS |-> [name |-> "HULL BOS Template", fields |-> hullBOSFields, customUI |-> FALSE],
     nightStrength |-> [name |-> "Night Strength", fields |-> nightStrengthFields,
                        customUI |-> FALSE],
     guardDuty |-> [name |-> "Guard Duty Template", fields |-> <<>>, customUI |-> TRUE],
     routineOrder |-> [name |-> "Routine Order Template", fields |-> <<>>, customUI |-> TRUE]]

FieldsOf(type) == templates[type].fields
KeysOf(type) == { FieldsOf(type)[i].key : i \in 1..Len(FieldsOf(type)) }

----------------------------------------------------------------------------
(* Strings of the form: blank strings, patterns, dates                     *)

\* v.trim() === ""
IsBlankString(v) == v \in {"", " "}

\* the strings of digits of the model (none has a leading zero)
DigitStrings == { ToString(n) : n \in NumberRange }

\* new RegExp(pattern).test(value), on the strings of the model
RegExpTest(pattern, value) ==
    CASE pattern = DIGITS -> value \in DigitStrings
      [] pattern = DECIMAL -> value \in DigitStrings \cup {"1.5"}
      [] pattern = FIVE_DIGITS ->
            value \in { ToString(n) : n \in { m \in NumberRange : m >= 10000 /\ m <= 99999 } }
      [] pattern = HHMM ->
            value \in { ToString(n) :
                        n \in { m \in NumberRange : m >= 1000 /\ m <= 2359 /\ m % 100 <= 59 } }
      [] pattern = TYPE_OFF -> value \in {"Off", "Leave", "OL - Japan"}
      [] pattern = MM_YYYY -> value \in {"01/2030"}

\* the strings the date pickers store (Date.prototype.toISOString of the
\* local midnight of the day picked; local time is UTC), and another
\* instant of 1 June
ISO_1JUN == "2025-06-01T00:00:00.000Z"
ISO_1JUN_NOON == "2025-06-01T12:00:00.000Z"
ISO_3JUN == "2025-06-03T00:00:00.000Z"
ISO_30JUN == "2025-06-30T00:00:00.000Z"
ISO_31DEC == "2025-12-31T00:00:00.000Z"
NOT_A_DATE == "not a date"

DateStrings ==
    (ISO_1JUN :> NewDate(2025, 5, 1))
    @@ (ISO_1JUN_NOON :> [day |-> DaysFromCivil(2025, 6, 1), tod |-> 12])
    @@ (ISO_3JUN :> NewDate(2025, 5, 3))
    @@ (ISO_30JUN :> NewDate(2025, 5, 30))
    @@ (ISO_31DEC :> NewDate(2025, 11, 31))

\* an Invalid Date, whose getTime() is NaN
InvalidDateObject == [day |-> 0, tod |-> 0 - 1]
IsValidDate(d) == d.tod >= 0

\* new Date(value) of a string
DateOf(value) == IF value \in DOMAIN DateStrings THEN DateStrings[value] ELSE InvalidDateObject

\* end < start of two Dates: false when either is invalid
DateLess(a, b) == IsValidDate(a) /\ IsValidDate(b) /\ getTime(a) < getTime(b)

\* the time values of a Date reach 100,000,000 days either side of 1 January
\* 1970: setDate past them leaves an Invalid Date
InDateRange(day, tod) ==
    /\ day < 100000000 \/ (day = 100000000 /\ tod = 0)
    /\ day >= 0 - 100000000

\* date-fns addDays, with a number or NaN (an Invalid Date)
addDays(d, amountIsNaN, amount) ==
    IF ~IsValidDate(d) \/ amountIsNaN THEN InvalidDateObject
    ELSE IF ~InDateRange(d.day + amount, d.tod) THEN InvalidDateObject
    ELSE [d EXCEPT !.day = d.day + amount]

padStart2(n) == IF n < 10 THEN "0" \o ToString(n) ELSE ToString(n)

\* date-fns format of a valid date; format throws a RangeError on an
\* Invalid Date, which formatThrows tells
formatThrows(d) == ~IsValidDate(d)
format(d, fmt) ==
    IF ~IsValidDate(d) THEN "RangeError: Invalid time value"
    ELSE CASE fmt = "d MMMM" -> ToString(getDate(d)) \o " " \o MONTHS[getMonth(d) + 1]
           [] fmt = "ddMMyy" ->
                padStart2(getDate(d)) \o padStart2(getMonth(d) + 1) \o padStart2(getFullYear(d) % 100)
           [] fmt = "dd/MM/yy" ->
                padStart2(getDate(d)) \o "/" \o padStart2(getMonth(d) + 1) \o "/"
                \o padStart2(getFullYear(d) % 100)
           [] fmt = "dd/MM/yyyy" ->
                padStart2(getDate(d)) \o "/" \o padStart2(getMonth(d) + 1) \o "/"
                \o ToString(getFullYear(d))

----------------------------------------------------------------------------
(* The generate functions of the flat-form templates                       *)

\* `${startDate === endDate ? one date : "X to Y"}` of the two off templates
dateRangeText(startDate, endDate) ==
    IF startDate = endDate THEN format(DateOf(startDate), "d MMMM")
    ELSE format(DateOf(startDate), "d MMMM") \o " to " \o format(DateOf(endDate), "d MMMM")
dateRangeThrows(startDate, endDate) ==
    \/ formatThrows(DateOf(startDate))
    \/ startDate # endDate /\ formatThrows(DateOf(endDate))

offAwardedGenerate(f) ==
    "* Rank/Name: " \o f.rank \o " " \o toUpperCase(f.name)
    \o "\n* Reason for Accumulation: " \o f.offAwardReason
    \o "\n* Dates Accumulated: " \o dateRangeText(f.startDate, f.endDate)
    \o "\n* Balance (After Accumulation): " \o f.balance
    \o "\n* Recommended By: " \o f.recommendedBy

\* `${isHalfDay && timeOff && `[${timeOff}]`}`
halfDayText(isHalfDay, timeOff) ==
    IF isHalfDay = "" THEN "" ELSE IF timeOff = "" THEN "" ELSE "[" \o timeOff \o "]"

offTemplateGenerate(f) ==
    " * Rank/Name: " \o f.rank \o " " \o toUpperCase(f.name)
    \o "\n * Type: " \o f.typeOff
    \o "\n * Dates: " \o dateRangeText(f.startDate, f.endDate) \o " "
    \o halfDayText(f.isHalfDay, f.timeOff)
    \o "\n * Balance Left: " \o f.balance
    \o "\n * Recommended By: " \o f.recommendedBy

\* addDays(new Date(dateIncident), Number(dayStatus) - 1)
sickEndDate(f) ==
    addDays(DateOf(f.dateIncident), IsNaNNumber(f.dayStatus),
            IF IsNaNNumber(f.dayStatus) THEN 0 ELSE Number(f.dayStatus) - 1)

\* the text of a sick report, given the formatted end of the status
reportSickText(f, endText) ==
    "*" \o f.newStatus \o "*\n\nRSI/RSO/MA Reporting Template\n"
    \o "(Serviceman do not need to fill out SN 10 and 11)\n\n"
    \o "1. Type of Incident:\nNon-Training Related\n\n"
    \o "2. Date & Time of Incident:\n"
    \o format(DateOf(f.dateIncident), "ddMMyy") \o "/ " \o f.startTimeIncident \o "hrs\n\n"
    \o "3. Serviceman/Woman Involved: Rank/Name: " \o f.rank \o " " \o toUpperCase(f.name) \o "\n\n"
    \o "4. Serviceman/woman Unit/ Company Unit:\n1AMB/ 11FMD/ FMW2\n\n"
    \o "5. Location: " \o f.location \o "\n\n"
    \o "6. Details of Incident:\nAt " \o format(DateOf(f.dateIncident), "ddMMyy")
    \o " around " \o f.startTimeIncident \o "hrs, serviceman went to " \o f.typeSick \o " at "
    \o (IF f.location = "Sungei Gedong Medical Centre" THEN "SGMC" ELSE f.location)
    \o " for " \o toUpperCase(f.reasonSick) \o ".\n"
    \o (IF f.newStatus = "UPDATED"
        THEN "\nAt around " \o f.endTimeIncident \o "hrs, serviceman was given " \o f.dayStatus
             \o " day " \o f.sickStatus \o " from " \o format(DateOf(f.dateIncident), "ddMMyy")
             \o " to " \o endText \o ". "
             \o (IF f.mcRefNo # "" THEN "Ref No.: " \o f.mcRefNo ELSE "") \o "\n"
        ELSE "")
    \o "\n7. Injury/ Damages: NIL\n\n8. Follow-up Updates: NIL\n\n9. NOK informed: Yes\n\n"
    \o "10. Date/ Time Verbal Report to IHQ & GSOC:\n\n11. Date/ Time of ESIS to GSOC:\n\n"
    \o "12. Reporting Person: " \o f.recommendedBy

reportSickGenerate(f) ==
    reportSickText(f, IF f.newStatus = "UPDATED" THEN format(sickEndDate(f), "ddMMyy") ELSE "")

reportSickThrows(f) ==
    \/ formatThrows(DateOf(f.dateIncident))
    \/ f.newStatus = "UPDATED" /\ formatThrows(sickEndDate(f))

\* `${value ? `${value}${unit}` : placeholder}`
orPlaceholder(value, unit, placeholder) == IF value # "" THEN value \o unit ELSE placeholder

\* the faults of the model are one line each
hullBOSGenerate(f) ==
    "MID " \o f.mid \o (IF f.vehiclePresent = "true" THEN "[present]" ELSE "[pending]") \o " "
    \o (IF f.vehiclePresent # "true" THEN "(" \o f.vehicleStatus \o ")" ELSE "")
    \o "\n[location] " \o f.vehicleLocation
    \o "\n[date] " \o (IF f.bosDate # "" THEN format(DateOf(f.bosDate), "dd/MM/yy") ELSE "[Date]")
    \o " [time] " \o orPlaceholder(f.bosTime, "hrs", "[Time]")
    \o "\nODO: " \o orPlaceholder(f.odo, "km", "[xx]")
    \o " | EH: " \o orPlaceholder(f.eh, "hrs", "[xx]")
    \o "\n[battery] AUX: " \o orPlaceholder(f.auxPercent, "%", "[%]") \o " "
    \o orPlaceholder(f.auxVolt, "V", "[V]")
    \o " | STARTER: " \o orPlaceholder(f.starterPercent, "%", "[%]") \o " "
    \o orPlaceholder(f.starterVolt, "V", "[V]")
    \o "\n[fuel] FUEL: " \o orPlaceholder(f.fuelPercent, "%", "[%]") \o " "
    \o orPlaceholder(f.fuelLitre, "L", "[L]")
    \o "\n[fire] AFES EXPIRY: " \o orPlaceholder(f.afesExpiry, "", "[MM/YYYY]")
    \o "\n[tools] Faults: "
    \o (IF f.vehiclePresent = "true"
        THEN (IF f.faults # "" THEN "\n* " \o f.faults ELSE "NIL")
        ELSE "\n* [Fault Description]")
hullBOSThrows(f) == f.bosDate # "" /\ formatThrows(DateOf(f.bosDate))

\* the rosters typed into the form, and the tokens of a roster string
FormRosters ==
    { <<Lab("STAYIN"), SP, Num(40), NL, Lab("STAYOUT"), SP, Num(5), NL, Lab("OS"), SP, Num(2)>>,
      <<Lab("STAYIN"), SP, Num(40), NL, NL, Lab("RSO"), SP, Num(1)>> }
RosterOf(str) ==
    IF \E r \in FormRosters : Text(r) = str
    THEN CHOOSE r \in FormRosters : Text(r) = str
    ELSE <<>>

nightStrengthText(f, now) ==
    LET out == nightStrengthGenerate(RosterOf(f.psNightStrength), f.blk210)
    IN "11FMD NIGHT STRENGTH " \o format(now, "dd/MM/yyyy") \o " BY " \o f.rank \o " "
       \o toUpperCase(f.name) \o "\n\n" \o Text(out.psNightStrengthAdj)
       \o "\n\nSTAYIN DETAILS\nBLK210: " \o f.blk210 \o "\nBLK420: " \o out.blk420

\* template.generate(relevantFields), and whether it throws
generate(type, f, now) ==
    CASE type = "offAwarded" -> offAwardedGenerate(f)
      [] type = "offTemplate" -> offTemplateGenerate(f)
      [] type = "reportSick" -> reportSickGenerate(f)
      [] type = "hullBOS" -> hullBOSGenerate(f)
      [] type = "nightStrength" -> nightStrengthText(f, now)
      [] OTHER -> ""

generateNeverThrows(type, f) == FALSE

\* whether template.generate(relevantFields) throws
generateThrows(type, f) ==
    CASE type \in {"offAwarded", "offTemplate"} -> dateRangeThrows(f.startDate, f.endDate)
      [] type = "reportSick" -> reportSickThrows(f)
      [] type = "hullBOS" -> hullBOSThrows(f)
      [] OTHER -> FALSE

----------------------------------------------------------------------------
(* Home.handleGenerate                                                     *)

\* values[key] === undefined
IsUndefined(values, key) == key \notin DOMAIN values

isFieldVisibleAlways(field, values) == TRUE
isFieldVisible(field, values) ==
    IF field.showIf = <<>> THEN TRUE
    ELSE IF IsUndefined(values, field.showIf[1].key) THEN FALSE
    ELSE values[field.showIf[1].key] = field.showIf[1].equals

\* field.required ?? true, and f.required !== false
isRequiredOnlyIfSet(field) == field.required = "true"
isRequired(field) == field.required # "false"

\* relevantFields[key] = fieldValues[key] || ""
relevantFields(type, values) ==
    [key \in KeysOf(type) |-> IF IsUndefined(values, key) THEN "" ELSE values[key]]

\* Array.prototype.find: the index of the first field that satisfies the
\* test, 0 when there is none
FirstOf(S) == IF S = {} THEN 0 ELSE Min(S)

isMissing(field, values) ==
    /\ isFieldVisible(field, values)
    /\ isRequired(field)
    /\ (IsUndefined(values, field.key) \/ IsBlankString(values[field.key]))

missing(fields, values) ==
    FirstOf({ i \in 1..Len(fields) : isMissing(fields[i], values) })

\* the first field the pattern loop returns on
failsPattern(field, values) ==
    /\ isFieldVisible(field, values)
    /\ field.pattern # ""
    /\ ~IsUndefined(values, field.key)
    /\ values[field.key] # ""
    /\ ~RegExpTest(field.pattern, values[field.key])

patternFailure(fields, values) ==
    FirstOf({ i \in 1..Len(fields) : failsPattern(fields[i], values) })

\* dateFields, and the first of them the loop over dateFields returns on
isDateField(field, values) ==
    /\ field.type = "date"
    /\ isFieldVisible(field, values)
    /\ field.required # "false"
    /\ (IsUndefined(values, field.key) \/ IsBlankString(values[field.key]))

isBadDate(field, values) ==
    \/ IsUndefined(values, field.key)
    \/ values[field.key] = ""
    \/ ~IsValidDate(DateOf(values[field.key]))

dateFailure(fields, values) ==
    FirstOf({ i \in 1..Len(fields) : isDateField(fields[i], values) /\ isBadDate(fields[i], values) })

\* key.toLowerCase().includes(part), on the keys of the registry
KeysIncluding(part) ==
    CASE part = "start" -> {"startDate", "startTimeIncident", "starterPercent", "starterVolt"}
      [] part = "end" -> {"endDate", "endTimeIncident", "recommendedBy"}

\* startKey and endKey: "" when find gives undefined
dateKey(fields, part) ==
    LET i == FirstOf({ j \in 1..Len(fields) :
                        fields[j].key \in KeysIncluding(part) /\ fields[j].type = "date" })
    IN IF i = 0 THEN "" ELSE fields[i].key

\* new Date(fieldValues[key])
dateOfKey(values, key) == IF IsUndefined(values, key) THEN InvalidDateObject ELSE DateOf(values[key])

endBeforeStart(fields, values) ==
    LET startKey == dateKey(fields, "start")
        endKey == dateKey(fields, "end")
    IN /\ startKey # ""
       /\ endKey # ""
       /\ DateLess(dateOfKey(values, endKey), dateOfKey(values, startKey))

validationErrorPatternFirst(type, values) ==
    LET fields == FieldsOf(type)
        m == missing(fields, values)
        p == patternFailure(fields, values)
    IN IF p > 0 THEN (IF fields[p].errorMessage # "" THEN fields[p].errorMessage
                      ELSE "Invalid input in \"" \o fields[p].label \o "\".")
       ELSE IF m > 0 THEN "Please fill in the \"" \o fields[m].label \o "\" field."
       ELSE IF endBeforeStart(fields, values)
            THEN "End date must be after or same as start date."
       ELSE ""

\* the message of the toast.error the validation returns with, "" when
\* all checks pass
validationError(type, values) ==
    LET fields == FieldsOf(type)
        m == missing(fields, values)
        p == patternFailure(fields, values)
        d == dateFailure(fields, values)
    IN IF m > 0 THEN "Please fill in the \"" \o fields[m].label \o "\" field."
       ELSE IF p > 0 THEN (IF fields[p].errorMessage # "" THEN fields[p].errorMessage
                           ELSE "Invalid input in \"" \o fields[p].label \o "\".")
       ELSE IF d > 0 THEN "Please select a valid date for \"" \o fields[d].label \o "\"."
       ELSE IF endBeforeStart(fields, values)
            THEN "End date must be after or same as start date."
       ELSE ""

----------------------------------------------------------------------------
(* The Home page with a flat-form template                                 *)

MaxFormEvents == 3

EmptyValues == [key \in {} |-> ""]

\* the defaults of a template's fields
defaultsOf(type) ==
    LET fields == FieldsOf(type)
        withDefault == { i \in 1..Len(fields) : fields[i].default # <<>> }
    IN [key \in { fields[i].key : i \in withDefault } |->
            fields[CHOOSE i \in withDefault : fields[i].key = key].default[1]]

\* what an earlier session that filled every form left in storage
FilledValues ==
    [rank |-> "CPL", name |-> "Tan Ah Kow", recommendedBy |-> "ME3 Alex",
     offAwardReason |-> "DUTY", startDate |-> ISO_1JUN, endDate |-> ISO_3JUN, balance |-> "1.5",
     typeOff |-> "Off", isHalfDay |-> "false",
     newStatus |-> "NEW", location |-> "Sungei Gedong Medical Centre", typeSick |-> "RSI",
     dateIncident |-> ISO_30JUN, startTimeIncident |-> "1320", reasonSick |-> "fever",
     mid |-> "12345", vehiclePresent |-> "true", vehicleLocation |-> "MSVS Level 3",
     bosDate |-> ISO_1JUN, bosTime |-> "1320", odo |-> "123", eh |-> "50", auxPercent |-> "80",
     auxVolt |-> "12", starterPercent |-> "80", starterVolt |-> "12", fuelPercent |-> "50",
     fuelLitre |-> "123", afesExpiry |-> "01/2030",
     psNightStrength |-> "STAYIN: 40\nSTAYOUT: 5\nOS: 2", blk210 |-> "12"]

\* values in storage that differ from FilledValues in one key: a date
\* stored as another instant of its day, a start after the end, a value
\* storage no longer holds as a date, the half-day choice left behind, a
\* key never filled
StoredEdits ==
    { <<"endDate", ISO_1JUN_NOON>>, <<"startDate", ISO_1JUN_NOON>>, <<"startDate", NOT_A_DATE>>,
      <<"startDate", ISO_30JUN>>,
      <<"dateIncident", NOT_A_DATE>>, <<"bosDate", NOT_A_DATE>>, <<"timeOff", "AM">>,
      <<"newStatus", "UPDATED">> }
StoredGaps == {"isHalfDay", "name", "endDate"}

Without(values, key) == [k \in DOMAIN values \ {key} |-> values[k]]

\* a sick report saved with its status updated
UpdatedValues ==
    ("newStatus" :> "UPDATED") @@ ("endTimeIncident" :> "1320") @@ ("sickStatus" :> "MC")
    @@ ("dayStatus" :> "3") @@ FilledValues

SavedValues ==
    {EmptyValues, FilledValues, UpdatedValues}
    \cup { (e[1] :> e[2]) @@ FilledValues : e \in StoredEdits }
    \cup { Without(FilledValues, key) : key \in StoredGaps }

FlatTypes == { TemplateKeys[i] : i \in { j \in 1..Len(TemplateKeys) : ~templates[TemplateKeys[j]].customUI } }

\* what the user enters in the fields of the forms
TypedInputs ==
    { <<"name", "">>, <<"name", " ">>, <<"balance", "abc">>, <<"typeOff", "MC">>,
      <<"startDate", ISO_1JUN>>, <<"startDate", ISO_3JUN>>,
      <<"endDate", ISO_1JUN>>, <<"endDate", ISO_3JUN>>,
      <<"isHalfDay", "true">>, <<"isHalfDay", "false">>, <<"timeOff", "AM">>,
      <<"newStatus", "UPDATED">>, <<"endTimeIncident", "2460">>, <<"endTimeIncident", "1320">>,
      <<"sickStatus", "MC">>, <<"dayStatus", "3">>, <<"dayStatus", "x">>,
      <<"dayStatus", "1">>, <<"dayStatus", "0">>, <<"dayStatus", "61">>,
      <<"dayStatus", "100000000">>,
      <<"dateIncident", ISO_31DEC>>,
      <<"vehiclePresent", "false">>, <<"vehicleStatus", "WPN">>, <<"bosTime", "2460">>,
      <<"blk210", "50">>, <<"blk210", "abc">>, <<"recommendedBy", "">> }

\* the state after the mount effects: the saved type, and the defaults of
\* its fields under the saved values
FormInit ==
    /\ today = [day |-> DaysFromCivil(2025, 6, 30), tod |-> 9]
    /\ selectedType \in FlatTypes
    /\ \E saved \in SavedValues : fieldValues = saved @@ defaultsOf(selectedType)
    /\ loading = FALSE
    /\ pending = "none"
    /\ HomeIdle
    /\ raw = <<>> /\ nowYear = 2025 /\ pruned = <<>> /\ repruned = <<>> /\ pstage = "idle"
    /\ NightIdle
    /\ GuardIdle
    /\ RoutineIdle

FormEvent ==
    /\ steps < MaxFormEvents
    /\ steps' = steps + 1
    /\ UNCHANGED <<pruneVars, nightVars, guardVars, routineVars>>

HandleChange ==
    /\ FormEvent
    /\ \E input \in TypedInputs :
        /\ \E i \in 1..Len(FieldsOf(selectedType)) :
              /\ FieldsOf(selectedType)[i].key = input[1]
              /\ isFieldVisible(FieldsOf(selectedType)[i], fieldValues)
        /\ fieldValues' = (input[1] :> input[2]) @@ fieldValues
    /\ UNCHANGED <<selectedType, loading, pending, generated, toast, logs, generateCalls>>

\* the template select's onValueChange
SelectTemplate ==
    /\ FormEvent
    /\ \E val \in FlatTypes :
        /\ selectedType' = val
        /\ generated' = ""
        /\ fieldValues' = fieldValues @@ defaultsOf(val)
    /\ UNCHANGED <<loading, pending, toast, logs, generateCalls>>

\* "Reset to Default" of a flat form, shown with a generated text
ResetToDefault ==
    /\ FormEvent
    /\ generated # ""
    /\ fieldValues' = defaultsOf(selectedType)
    /\ toast' = [kind |-> "info", message |-> "Reset to default values"]
    /\ UNCHANGED <<selectedType, loading, pending, generated, logs, generateCalls>>

\* handleGenerate up to its return or its await: the button is disabled
\* while loading
HandleGenerate ==
    /\ FormEvent
    /\ ~loading
    /\ LET error == validationError(selectedType, fieldValues)
           f == relevantFields(selectedType, fieldValues)
       IN IF error # ""
          THEN /\ toast' = ErrorToast(error)
               /\ UNCHANGED <<generated, logs, generateCalls, loading, pending>>
          ELSE IF generateThrows(selectedType, f)
          THEN /\ toast' = ErrorToast("An unexpected error occurred. Try again.")
               /\ generateCalls' = generateCalls + 1
               /\ UNCHANGED <<generated, logs, loading, pending>>
          ELSE /\ generated' = generate(selectedType, f, today)
               /\ generateCalls' = generateCalls + 1
               /\ toast' = SuccessToast("Template Generated!")
               /\ logs' = Append(logs, [template |-> selectedType, fields |-> f,
                                        template_type |-> templates[selectedType].name])
               /\ loading' = TRUE
               /\ pending' = "fetch"
    /\ UNCHANGED <<selectedType, fieldValues>>

\* the awaited log request settles: fetch resolves whatever the status of
\* the response, or rejects
FetchResolves ==
    /\ pending = "fetch"
    /\ pending' = "none"
    /\ loading' = FALSE
    /\ UNCHANGED <<selectedType, fieldValues, generated, toast, logs, generateCalls, steps,
                   pruneVars, nightVars, guardVars, routineVars>>

FetchRejects ==
    /\ pending = "fetch"
    /\ pending' = "none"
    /\ loading' = FALSE
    /\ toast' = ErrorToast("An unexpected error occurred. Try again.")
    /\ UNCHANGED <<selectedType, fieldValues, generated, logs, generateCalls, steps,
                   pruneVars, nightVars, guardVars, routineVars>>

FormNext ==
    \/ HandleChange
    \/ SelectTemplate
    \/ ResetToDefault
    \/ HandleGenerate
    \/ FetchResolves
    \/ FetchRejects

SpecForm == FormInit /\ [][FormNext]_vars

----------------------------------------------------------------------------
(* C3 to C6: the checks of handleGenerate, read off the registry           *)

\* a field is active when it has no showIf or the referenced value is
\* exactly the showIf's string
Active(field, values) ==
    IF field.showIf = <<>> THEN TRUE
    ELSE IF field.showIf[1].key \in DOMAIN values
         THEN values[field.showIf[1].key] = field.showIf[1].equals
         ELSE FALSE

AbsentOrBlank(values, key) ==
    IF key \in DOMAIN values THEN values[key] \in {"", " "} ELSE TRUE

\* the active fields, required unless they say false, without a value
MissingFields(type, values) ==
    { i \in 1..Len(FieldsOf(type)) :
        /\ Active(FieldsOf(type)[i], values)
        /\ FieldsOf(type)[i].required # "false"
        /\ AbsentOrBlank(values, FieldsOf(type)[i].key) }

MissingToast(label) ==
    [kind |-> "error", message |-> "Please fill in the \"" \o label \o "\" field."]

\* C3: when an active field that is required has no value, handleGenerate
\* shows the MissingField error that names the first such field, does not
\* call generate, leaves the displayed text and submits no log record.
C3_MissingField ==
    [][HandleGenerate /\ MissingFields(selectedType, fieldValues) # {} =>
        /\ toast' = MissingToast(FieldsOf(selectedType)[Min(MissingFields(selectedType, fieldValues))].label)
        /\ generateCalls' = generateCalls
        /\ generated' = generated
        /\ logs' = logs]_vars

\* a text is displayed, a field was emptied, and generating again was
\* refused for that field
C3_Witness ==
    /\ MissingFields(selectedType, fieldValues) # {}
    /\ toast = MissingToast(FieldsOf(selectedType)[Min(MissingFields(selectedType, fieldValues))].label)
    /\ generated # ""
    /\ generateCalls = 1
    /\ Len(logs) = 1

Holds(values, key, value) ==
    IF key \in DOMAIN values THEN values[key] = value ELSE FALSE

InactiveFields(type, values) ==
    { i \in 1..Len(FieldsOf(type)) : ~Active(FieldsOf(type)[i], values) }

TimeOffIndex == CHOOSE i \in 1..Len(offTemplateFields) : offTemplateFields[i].key = "timeOff"

\* C4: a field whose showIf is not satisfied takes no part in the checks:
\* the outcome of the validation is the same without its value; in the
\* Leave/Off template a blank timeOff gives no MissingField for it when
\* isHalfDay is "false" or absent, and gives MissingField when isHalfDay
\* is "true" (for timeOff, when no other field is missing).
C4_ShowIfExempts ==
    [][HandleGenerate =>
        /\ \A i \in InactiveFields(selectedType, fieldValues) :
              /\ validationError(selectedType, fieldValues)
                   = validationError(selectedType, Without(fieldValues, FieldsOf(selectedType)[i].key))
              /\ toast' # MissingToast(FieldsOf(selectedType)[i].label)
        /\ (selectedType = "offTemplate" /\ AbsentOrBlank(fieldValues, "timeOff")) =>
              IF "isHalfDay" \notin DOMAIN fieldValues \/ Holds(fieldValues, "isHalfDay", "false")
              THEN toast' # MissingToast("AM OFF/PM OFF")
              ELSE IF Holds(fieldValues, "isHalfDay", "true")
              THEN /\ \E i \in MissingFields(selectedType, fieldValues) :
                         toast' = MissingToast(offTemplateFields[i].label)
                   /\ MissingFields(selectedType, fieldValues) = {TimeOffIndex}
                         => toast' = MissingToast("AM OFF/PM OFF")
              ELSE TRUE]_vars

\* a Leave/Off text was generated with isHalfDay "false" and no timeOff;
\* then the half day was ticked and generating was refused for timeOff
C4_Witness ==
    /\ selectedType = "offTemplate"
    /\ Len(logs) = 1
    /\ logs[Len(logs)].template = "offTemplate"
    /\ Holds(logs[Len(logs)].fields, "isHalfDay", "false")
    /\ AbsentOrBlank(logs[Len(logs)].fields, "timeOff")
    /\ Holds(fieldValues, "isHalfDay", "true")
    /\ AbsentOrBlank(fieldValues, "timeOff")
    /\ toast = MissingToast("AM OFF/PM OFF")

Matches(pattern, value) == RegExpTest(pattern, value)

\* the active fields whose value does not match their pattern
PatternFailures(type, values) ==
    { i \in 1..Len(FieldsOf(type)) :
        /\ Active(FieldsOf(type)[i], values)
        /\ FieldsOf(type)[i].pattern # ""
        /\ ~AbsentOrBlank(values, FieldsOf(type)[i].key)
        /\ ~Matches(FieldsOf(type)[i].pattern, values[FieldsOf(type)[i].key]) }

ParsesAsDate(values, key) ==
    IF key \in DOMAIN values THEN values[key] \in DOMAIN DateStrings ELSE FALSE

\* the active, required date fields whose value is blank or no date
BadDateFields(type, values) ==
    { i \in 1..Len(FieldsOf(type)) :
        /\ FieldsOf(type)[i].type = "date"
        /\ Active(FieldsOf(type)[i], values)
        /\ FieldsOf(type)[i].required # "false"
        /\ ~ParsesAsDate(values, FieldsOf(type)[i].key) }

CalendarDay(values, key) == DateStrings[values[key]].day

\* C6: in the two off templates, when the checks before the date range
\* pass: an end date on an earlier calendar day than the start date gives
\* the DateRangeError and no text; start and end on the same calendar day
\* pass, and the text shows the one date.
C6_DateRange ==
    [][(/\ HandleGenerate
        /\ selectedType \in {"offAwarded", "offTemplate"}
        /\ MissingFields(selectedType, fieldValues) = {}
        /\ PatternFailures(selectedType, fieldValues) = {}
        /\ ParsesAsDate(fieldValues, "startDate")
        /\ ParsesAsDate(fieldValues, "endDate")) =>
        /\ CalendarDay(fieldValues, "endDate") < CalendarDay(fieldValues, "startDate") =>
              /\ toast' = [kind |-> "error",
                           message |-> "End date must be after or same as start date."]
              /\ generated' = generated
              /\ logs' = logs
        /\ CalendarDay(fieldValues, "endDate") = CalendarDay(fieldValues, "startDate") =>
              /\ toast' = [kind |-> "success", message |-> "Template Generated!"]
              /\ generated' = generate(selectedType,
                                       [relevantFields(selectedType, fieldValues)
                                            EXCEPT !["endDate"] = fieldValues["startDate"]],
                                       today)]_vars

----------------------------------------------------------------------------
(* C11: the shape of the guard-duty list                                   *)

\* the three lines of a stanza: the title, the number, a line of one space
StanzaLines(title) == <<<<W(title), SP>>, <<W("NUMBER:"), SP>>, <<SP>>>>

RECURSIVE StanzasLines(_)
StanzasLines(titles) ==
    IF titles = <<>> THEN <<>> ELSE StanzaLines(Head(titles)) \o StanzasLines(Tail(titles))

\* the roles of IC_TYPES an entry has selected, in the order of IC_TYPES
SelectedRoles(entry) ==
    SelectSeq(IC_TYPES, LAMBDA role : \E i \in 1..Len(entry.icTypes) : entry.icTypes[i] = role)

\* a block: the date line, a stanza per selected role, numGuards stanzas G:
BlockLinesOf(entry) ==
    <<<<DateTok(getDate(entry.date), getMonth(entry.date) + 1), SP, Paren(getDay(entry.date))>>>>
    \o StanzasLines([i \in 1..Len(SelectedRoles(entry)) |-> SelectedRoles(entry)[i] \o ":"])
    \o StanzasLines([g \in 1..entry.numGuards |-> "G:"])

\* the header line, then the blocks by ascending date with one line of ten
\* '=' between two blocks
ListLines(es, month, year) ==
    LET byDate == SortByKeys(es, [i \in 1..Len(es) |-> es[i].date.day])
    IN <<<<Header(month, year)>>>>
       \o Join([i \in 1..Len(es) |-> BlockLinesOf(byDate[i])], <<<<Eq(10)>>>>)

\* C11: for n >= 1 entries the generated list is the header line and n
\* blocks in ascending date order, with a line of ten '=' between two
\* consecutive blocks (n - 1 of them, none after the last block); a block
\* is its date line, one stanza per selected role in the order 2IC, 3IC,
\* 4IC, and numGuards stanzas G: (the white space that ends the text is
\* trimmed).
C11_ListShape ==
    [][GuardHandleGenerate /\ Len(entries) >= 1 =>
        /\ generated' = Text(TrimEnd(Join(ListLines(entries, selectedMonth, selectedYear), <<NL>>)))
        /\ Cardinality({ i \in 1..Len(ListLines(entries, selectedMonth, selectedYear)) :
                            ListLines(entries, selectedMonth, selectedYear)[i] = <<Eq(10)>> })
             = Len(entries) - 1]_vars

\* a list of two blocks was generated, one of them with the roles 2IC and
\* 4IC
C11_Witness ==
    /\ Len(entries) = 2
    /\ \E i \in 1..2 : entries[i].icTypes = <<"2IC", "4IC">>
    /\ \E i \in 1..2 : entries[i].numGuards = 1
    /\ toast = SuccessToast("Guard Duty Template Generated!")
    /\ generated = Text(guardDutyText(entries, selectedMonth, selectedYear))

----------------------------------------------------------------------------
(* RoutineOrderUI: the span of days and the regimental entries             *)

\* the same day whatever the number of days
addDaysLocalSame(d, days) == d

\* addDaysLocal: setDate(getDate() + days)
addDaysLocal(d, days) == [d EXCEPT !.day = @ + days]

\* two days whatever the day
defaultSpanAlwaysTwo(day) == 2

\* Mon-Thu 2 days, Fri 4, Sat 3, Sun 2
defaultSpanDaysForToday(day) ==
    LET dow == getDay(startOfDay(day))
    IN IF dow = 5 THEN 4
       ELSE IF dow = 6 THEN 3
       ELSE 2

\* the record ensureEntries makes for a date without an entry
blankEntry(d) ==
    [date |-> d, dfo |-> "", udo |-> "", dutyClerk |-> "",
     rcv |-> [cmdr |-> "", ic2 |-> "", crew |-> ""],
     arv |-> [cmdr |-> "", driver |-> "", mechanic |-> ""],
     hrv |-> [cmdr |-> "", driver |-> "", mechanic |-> ""]]

\* every date gets a blank record
ensureEntriesBlank(prev, baseDate, days) ==
    [i \in 1..days |-> blankEntry(startOfDay(addDaysLocal(startOfDay(baseDate), i - 1)))]

\* the updater ensureEntries queues: the wanted dates, each with the entry
\* of prev that has its date (the last one, as new Map keeps the last)
ensureEntriesUpdater(prev, baseDate, days) ==
    LET base0 == startOfDay(baseDate)
        wanted == [i \in 1..days |-> startOfDay(addDaysLocal(base0, i - 1))]
        byKey(key) == { j \in 1..Len(prev) : toDateString(startOfDay(prev[j].date)) = key }
    IN [i \in 1..days |->
          IF byKey(toDateString(wanted[i])) # {}
          THEN [prev[Max(byKey(toDateString(wanted[i])))] EXCEPT !.date = wanted[i]]
          ELSE blankEntry(wanted[i])]

\* updateEntry's updater; a patch is a field, or a part of a duty, with
\* its new value
patched(e, patch) ==
    IF patch.part = "" THEN [e EXCEPT ![patch.field] = patch.value]
    ELSE [e EXCEPT ![patch.field] = [patch.duty EXCEPT ![patch.part] = patch.value]]

routineUpdateEntryUpdater(prev, idx, patch) ==
    [i \in 1..Len(prev) |-> IF i = idx THEN patched(prev[i], patch) ELSE prev[i]]

\* what the save effect writes once hydrated
routineSnapshot(sm, eu, gd, span, es) ==
    <<[ok |-> TRUE, safetyMessage |-> sm, eventUpdate |-> eu, guardDutyText |-> gd,
       spanDays |-> span, entries |-> es]>>

\* formatDdMmYy
formatDdMmYy(d) ==
    padStart2(getDate(d)) \o "/" \o padStart2(getMonth(d) + 1) \o "/"
    \o padStart2(getFullYear(d) % 100)

orBrackets(v) == IF v # "" THEN v ELSE "[]"

\* the text of one entry; the crews of the model are one line each
regimentalEntryText(e) ==
    LET mark == "-<" \o DAY_NAMES[getDay(e.date) + 1] \o " " \o formatDdMmYy(e.date) \o ">-"
    IN mark
       \o "\nDFO- " \o orBrackets(e.dfo)
       \o "\nUDO- " \o orBrackets(e.udo)
       \o "\nDUTY CLERK- " \o orBrackets(e.dutyClerk)
       \o "\n\nRCV Recovery Duty"
       \o "\nCMDR- " \o orBrackets(e.rcv.cmdr)
       \o "\n2IC- " \o orBrackets(e.rcv.ic2)
       \o "\nCREW- " \o (IF e.rcv.crew # "" THEN "\n- " \o e.rcv.crew ELSE "[]")
       \o "\n\nARV Recover duty"
       \o "\nCMDR- " \o orBrackets(e.arv.cmdr)
       \o "\nDRIVER- " \o orBrackets(e.arv.driver)
       \o "\nMECHANIC- " \o orBrackets(e.arv.mechanic)
       \o "\n\nHRV Recover duty"
       \o "\nCMDR- " \o orBrackets(e.hrv.cmdr)
       \o "\nDRIVER- " \o orBrackets(e.hrv.driver)
       \o "\nMECHANIC- " \o orBrackets(e.hrv.mechanic)
       \o "\n\n" \o mark

\* the entries in the opposite order
regimentalReversed(es) == [i \in 1..Len(es) |-> es[Len(es) + 1 - i]]

\* entries.sort(by date): the array of the state, sorted in place
regimentalSorted(es) == SortByKeys(es, [i \in 1..Len(es) |-> getTime(es[i].date)])

RECURSIVE joinedEntries(_, _)
joinedEntries(es, i) ==
    IF i > Len(es) THEN ""
    ELSE regimentalEntryText(es[i]) \o (IF i < Len(es) THEN "\n\n" ELSE "")
         \o joinedEntries(es, i + 1)

formatRegimental(es) == joinedEntries(regimentalSorted(es), 1)

\* today.toLocaleDateString("en-GB", 2-digit day and month, numeric year)
toLocaleDateString(d) ==
    padStart2(getDate(d)) \o "/" \o padStart2(getMonth(d) + 1) \o "/" \o ToString(getFullYear(d))

section(text) == IF text # "" THEN "\n" \o text \o "\n" ELSE "\n"

\* buildRoutineOrderText(...).trimEnd(): the text without its last line
\* feed
buildRoutineOrderText(sm, eu, regimentalDutiesText, guardText, day) ==
    "**11FMD DRO " \o DAY_NAMES[getDay(day) + 1] \o " " \o toLocaleDateString(day) \o "**"
    \o "\n**[warning]-CO SAFETY MESSAGE-[warning]**"
    \o "\n1. Zero Fatal Injuries\n2. Zero Major Injuries\n3. Zero Heat Stroke"
    \o "\n4. Zero Negligent Discharge of Live Ammunition"
    \o "\n5. Zero Severe Vehicle Incidents\n6. Zero Severe Workplace Incidents"
    \o "\n**[warning]-CO SAFETY MESSAGE-[warning]**"
    \o "\n\n**-SAFETY MESSAGE OF THE DAY-**\n" \o toUpperCase(sm)
    \o "\n**-SAFETY MESSAGE OF THE DAY-**"
    \o "\n\n*-UPCOMING EVENTS/NOTICE-*" \o section(eu) \o "*-UPCOMING EVENTS/NOTICE-*"
    \o "\n\n**[helmet]-REGIMENTAL DUTIES-[helmet]**" \o section(regimentalDutiesText)
    \o "**[helmet]-REGIMENTAL DUTIES-[helmet]**"
    \o "\n\n**[wizard]-GUARD DUTY-[wizard]**" \o section(guardText)
    \o "**[wizard]-GUARD DUTY-[wizard]**"

\* the text RoutineOrderUI.handleGenerate hands to onGenerate
routineOrderText(sm, eu, gd, es, day, currentYear) ==
    buildRoutineOrderText(sm, eu, formatRegimental(es),
                          Text(pruneGuardDutyList(gd, day, currentYear)), day)

MaxRoutineEvents == 3

\* the days the page is opened on: a week from Monday 26 January 2026, so
\* that the spans of Friday and Saturday run into February
RoutineTodays == { [day |-> DaysFromCivil(2026, 1, 26) + i, tod |-> 0] : i \in 0..6 }

RoutineTexts == {"", "3SG TAN"}
RoutineFields == { <<"dfo", "">>, <<"rcv", "crew">> }
RoutineSpans == 1..4

\* a guard-duty list of January 2026 with a block for the 20th and one
\* for the 31st
RoutineGuardList ==
    Join(<< <<Header(0, 2026)>>, <<DateTok(20, 1), SP, Paren(2)>>, <<Word(0), SP>>, <<Eq(10)>>,
            <<DateTok(31, 1), SP, Paren(6)>>, <<Word(0), SP>> >>, <<NL>>)

\* what an earlier session left in storage: nothing, a text that does not
\* parse, yesterday's two days, or today's four days with the three texts
RoutineStored(day) ==
    { <<>>,
      <<[ok |-> FALSE, safetyMessage |-> "", eventUpdate |-> "", guardDutyText |-> <<>>,
         spanDays |-> 0, entries |-> <<>>]>>,
      routineSnapshot("", "", <<>>, 2,
                      <<[blankEntry(addDaysLocal(day, 0 - 1)) EXCEPT !.dfo = "ME4 ONG"],
                        [blankEntry(day) EXCEPT !.udo = "2LT LIEW"]>>),
      routineSnapshot("Stay safe", "Parade 0800", RoutineGuardList, 4,
                      <<[blankEntry(day) EXCEPT !.dfo = "ME4 ONG"],
                        blankEntry(addDaysLocal(day, 1)),
                        [blankEntry(addDaysLocal(day, 2)) EXCEPT !.arv = [cmdr |-> "", driver |-> "CPL LIM", mechanic |-> ""]],
                        blankEntry(addDaysLocal(day, 3))>>) }

\* the state of the first render
RoutineInit ==
    /\ today \in RoutineTodays
    /\ hydrated = FALSE
    /\ spanDays = defaultSpanDaysForToday(today)
    /\ regEntries = <<>>
    /\ safetyMessage = ""
    /\ eventUpdate = ""
    /\ routineGuardDutyText = <<>>
    /\ routineSaved \in RoutineStored(today)
    /\ HomeIdle
    /\ raw = <<>> /\ nowYear = 2026 /\ pruned = <<>> /\ repruned = <<>> /\ pstage = "idle"
    /\ NightIdle
    /\ GuardIdle
    /\ selectedType = "routineOrder"
    /\ fieldValues = [key \in {} |-> ""]
    /\ loading = FALSE
    /\ pending = "none"

RoutineFrame == UNCHANGED <<pruneVars, nightVars, formVars, guardVars, logs>>

\* the effects of the first render and of the render they cause: the load
\* effect, then the effect that aligns the entries with the span, then the
\* save effect
RoutineMount ==
    /\ selectedType = "routineOrder"
    /\ ~hydrated
    /\ LET usable == IF routineSaved = <<>> THEN FALSE ELSE routineSaved[1].ok
           span == IF usable THEN routineSaved[1].spanDays ELSE defaultSpanDaysForToday(today)
           loaded == IF usable THEN routineSaved[1].entries
                     ELSE ensureEntriesUpdater(regEntries, today, span)
           aligned == ensureEntriesUpdater(loaded, today, span)
       IN /\ spanDays' = span
          /\ regEntries' = aligned
          /\ safetyMessage' = IF usable THEN routineSaved[1].safetyMessage ELSE safetyMessage
          /\ eventUpdate' = IF usable THEN routineSaved[1].eventUpdate ELSE eventUpdate
          /\ routineGuardDutyText' =
                IF usable THEN routineSaved[1].guardDutyText ELSE routineGuardDutyText
          /\ routineSaved' = routineSnapshot(safetyMessage', eventUpdate', routineGuardDutyText',
                                             span, aligned)
    /\ hydrated' = TRUE
    /\ UNCHANGED <<steps, toast, generated, generateCalls>>
    /\ RoutineFrame

RoutineEvent ==
    /\ selectedType = "routineOrder"
    /\ hydrated
    /\ steps < MaxRoutineEvents
    /\ steps' = steps + 1
    /\ UNCHANGED hydrated
    /\ RoutineFrame

\* the save effect of the render an event causes
routineSave ==
    routineSaved' = routineSnapshot(safetyMessage', eventUpdate', routineGuardDutyText',
                                    spanDays', regEntries')

\* setSpanDays(v) and the effects of the render it causes
spanChange(v) ==
    /\ spanDays' = v
    /\ regEntries' = IF v = spanDays THEN regEntries ELSE ensureEntriesUpdater(regEntries, today, v)
    /\ UNCHANGED <<safetyMessage, eventUpdate, routineGuardDutyText, generated, generateCalls>>
    /\ routineSave

\* the select "Send which days?"
SetSpanDays ==
    /\ RoutineEvent
    /\ \E v \in RoutineSpans : spanChange(v)
    /\ UNCHANGED toast

\* the button "Use Default Rule"
UseDefaultRule ==
    /\ RoutineEvent
    /\ spanChange(defaultSpanDaysForToday(today))
    /\ toast' = [kind |-> "info", message |-> "Reset to default span for today"]

\* an input of an entry: updateEntry(idx, patch)
RoutineUpdateEntry ==
    /\ RoutineEvent
    /\ \E idx \in 1..Len(regEntries), f \in RoutineFields, value \in RoutineTexts :
          LET patch == [field |-> f[1], part |-> f[2], value |-> value,
                        duty |-> IF f[2] = "" THEN <<>> ELSE regEntries[idx][f[1]]]
          IN regEntries' = routineUpdateEntryUpdater(regEntries, idx, patch)
    /\ UNCHANGED <<spanDays, toast, safetyMessage, eventUpdate, routineGuardDutyText,
                   generated, generateCalls>>
    /\ routineSave

\* the three text areas
SetSafetyMessage ==
    /\ RoutineEvent
    /\ safetyMessage' \in {"", "Stay safe"}
    /\ UNCHANGED <<spanDays, regEntries, toast, eventUpdate, routineGuardDutyText,
                   generated, generateCalls>>
    /\ routineSave

SetEventUpdate ==
    /\ RoutineEvent
    /\ eventUpdate' \in {"", "Parade 0800"}
    /\ UNCHANGED <<spanDays, regEntries, toast, safetyMessage, routineGuardDutyText,
                   generated, generateCalls>>
    /\ routineSave

SetGuardDutyText ==
    /\ RoutineEvent
    /\ routineGuardDutyText' \in {<<>>, RoutineGuardList}
    /\ UNCHANGED <<spanDays, regEntries, toast, safetyMessage, eventUpdate,
                   generated, generateCalls>>
    /\ routineSave

\* RoutineOrderUI.handleGenerate: formatRegimental sorts the array of the
\* state in place, which no effect depends on; onGenerate is Home's
\* setGenerated; no request is made
RoutineHandleGenerate ==
    /\ RoutineEvent
    /\ regEntries' = regimentalSorted(regEntries)
    /\ generated' = routineOrderText(safetyMessage, eventUpdate, routineGuardDutyText,
                                     regEntries, today, nowYear)
    /\ generateCalls' = generateCalls + 1
    /\ toast' = SuccessToast("Routine Order Generated!")
    /\ UNCHANGED <<spanDays, safetyMessage, eventUpdate, routineGuardDutyText, routineSaved>>

\* Home's "Reset to Default" with the routine-order template, shown with
\* a generated text: the saved state is removed and the type is set to ""
\* (and to "routineOrder" again by a timer); the render with the type ""
\* throws, and the page does not render again
RoutineResetToDefault ==
    /\ selectedType = "routineOrder"
    /\ hydrated
    /\ steps < MaxRoutineEvents
    /\ steps' = steps + 1
    /\ generated # ""
    /\ generated' = ""
    /\ toast' = [kind |-> "info", message |-> "Routine order cleared"]
    /\ selectedType' = ""
    /\ routineSaved' = <<>>
    /\ UNCHANGED <<pruneVars, nightVars, guardVars, fieldValues, loading, pending, logs,
                   generateCalls, hydrated, spanDays, regEntries, safetyMessage, eventUpdate,
                   routineGuardDutyText>>

RoutineNext ==
    \/ RoutineMount
    \/ SetSpanDays
    \/ UseDefaultRule
    \/ RoutineUpdateEntry
    \/ SetSafetyMessage
    \/ SetEventUpdate
    \/ SetGuardDutyText
    \/ RoutineHandleGenerate
    \/ RoutineResetToDefault

SpecRoutine == RoutineInit /\ [][RoutineNext]_vars

----------------------------------------------------------------------------
(* C12: a change of the span keeps the entries by date                     *)

\* the entry of es for the calendar day d, if there is one
EntriesOn(es, d) == { i \in 1..Len(es) : es[i].date.day = d }

\* C12: after a change of spanDays the entries are those of the days
\* today .. today + spanDays - 1 in order; a day that had an entry keeps it
\* with every field unchanged (an entry edited just before included), a new
\* day gets a blank entry, and the days out of the span are dropped.
C12_SpanKeepsEntries ==
    [][SetSpanDays =>
        /\ Len(regEntries') = spanDays'
        /\ \A i \in 1..spanDays' :
              LET d == today.day + i - 1
              IN /\ regEntries'[i].date = [day |-> d, tod |-> 0]
                 /\ IF EntriesOn(regEntries, d) # {}
                    THEN \E j \in EntriesOn(regEntries, d) : regEntries'[i] = regEntries[j]
                    ELSE /\ regEntries'[i].dfo = "" /\ regEntries'[i].udo = ""
                         /\ regEntries'[i].dutyClerk = ""
                         /\ \A duty \in {"rcv", "arv", "hrv"} :
                               \A part \in DOMAIN regEntries'[i][duty] :
                                   regEntries'[i][duty][part] = ""]_vars

\* the span grew from the default 2 to 4 after an edit of the first day:
\* the edit is kept, the tail is blank, storage holds the same
C12_Witness ==
    /\ hydrated
    /\ defaultSpanDaysForToday(today) = 2
    /\ spanDays = 4
    /\ Len(regEntries) = 4
    /\ regEntries[1].rcv.crew = "3SG TAN"
    /\ regEntries[2].dfo = "3SG TAN"
    /\ regEntries[3] = blankEntry(addDaysLocal(today, 2))
    /\ regEntries[4] = blankEntry(addDaysLocal(today, 3))
    /\ steps = 3

----------------------------------------------------------------------------
(* C19: the default span                                                   *)

\* the day of the week counted from Monday 26 January 2026: 0 is Monday,
\* 4 Friday, 5 Saturday, 6 Sunday
WeekdayFromMonday(d) == (d.day - DaysFromCivil(2026, 1, 26)) % 7

NoUsableStore == IF routineSaved = <<>> THEN TRUE ELSE ~routineSaved[1].ok

\* C19: whenever the default span is taken (the first render without a
\* usable store, the button "Use Default Rule") it is 2 from Monday to
\* Thursday, 4 on Friday, 3 on Saturday and 2 on Sunday; the last day of
\* the span is the next Monday for Friday, Saturday and Sunday, and
\* tomorrow for Monday to Thursday.
C19_DefaultSpan ==
    [][UseDefaultRule \/ (RoutineMount /\ NoUsableStore) =>
        /\ spanDays' = (CASE WeekdayFromMonday(today) \in 0..3 -> 2
                          [] WeekdayFromMonday(today) = 4 -> 4
                          [] WeekdayFromMonday(today) = 5 -> 3
                          [] WeekdayFromMonday(today) = 6 -> 2)
        /\ LET last == regEntries'[Len(regEntries')].date
           IN /\ last.day = today.day + spanDays' - 1
              /\ IF WeekdayFromMonday(today) \in 4..6
                 THEN WeekdayFromMonday(last) = 0 /\ last.day - today.day \in 1..3
                 ELSE last.day = today.day + 1]_vars

\* on a Friday the button "Use Default Rule" was pressed: four
\* days, the last one a Monday
C19_Witness ==
    /\ WeekdayFromMonday(today) = 4
    /\ toast = [kind |-> "info", message |-> "Reset to default span for today"]
    /\ spanDays = 4
    /\ Len(regEntries) = 4
    /\ WeekdayFromMonday(regEntries[4].date) = 0
    /\ getDay(regEntries[4].date) = 1

----------------------------------------------------------------------------
(* C13: the log request after a generation                                 *)

\* C13: when the log request of a successful generation settles, by a
\* response of any status or by a rejection, the generated text stays
\* displayed, nothing more is reported to the user, and the form is not
\* loading any more.
C13_LogFailureIgnored ==
    [][FetchResolves \/ FetchRejects =>
        /\ generated' = generated
        /\ toast' = toast
        /\ loading' = FALSE]_vars

----------------------------------------------------------------------------
(* C14 and C15: nothing left to keep, and nothing to prune                 *)

\* every dated block of the pasted text is dated before today
AllBlocksPast ==
    LET ls == BodyLines
        idx == DateLineIdx(ls)
    IN /\ Len(idx) > 0
       /\ \A k \in 1..Len(idx) : BlockDay(ls[idx[k]], PastedHeader) < today.day

\* C14: pruned with a today later than the day of every dated block, the
\* list comes back as its header line alone when it has a header line, and
\* as the empty text when it has none.
C14_AllPast == pstage # "pasted" /\ AllBlocksPast => pruned = PastedHeader

\* a list with a header whose blocks are all past was pruned to the header
C14_Witness ==
    /\ pstage = "pruned"
    /\ AllBlocksPast
    /\ PastedHeader # <<>>
    /\ pruned = PastedHeader
    /\ Len(raw) > Len(pruned) + 2

\* the lines of the pasted text as pasted, "\r\n" and "\n" ending a line
RawLines == Lines([i \in 1..Len(raw) |-> IF raw[i] = CRLF THEN NL ELSE raw[i]])

----------------------------------------------------------------------------
(* C16: an exception of the generator                                      *)

GenericError == [kind |-> "error", message |-> "An unexpected error occurred. Try again."]

\* the dates the generator of a template formats, under the values it is
\* given: both ends of the off templates (the end only when it differs from
\* the start), the incident date of a sick report and the end of an updated
\* one, a non-empty BOS date
Unparsed(values, key) == ~IsUndefined(values, key) /\ values[key] \notin DOMAIN DateStrings

PastLastDate(values) ==
    /\ ~IsUndefined(values, "dateIncident") /\ ~Unparsed(values, "dateIncident")
    /\ ~IsUndefined(values, "dayStatus") /\ values["dayStatus"] \in DigitStrings
    /\ LET d == DateStrings[values["dateIncident"]]
       IN ~InDateRange(d.day + Number(values["dayStatus"]) - 1, d.tod)

FormatsNoDate(type, values) ==
    CASE type \in {"offAwarded", "offTemplate"} ->
            \/ Unparsed(values, "startDate") \/ IsUndefined(values, "startDate")
            \/ /\ ~Holds(values, "endDate", values["startDate"])
               /\ Unparsed(values, "endDate") \/ IsUndefined(values, "endDate")
      [] type = "reportSick" ->
            \/ Unparsed(values, "dateIncident") \/ IsUndefined(values, "dateIncident")
            \/ Holds(values, "newStatus", "UPDATED") /\ PastLastDate(values)
      [] type = "hullBOS" -> Unparsed(values, "bosDate") /\ ~Holds(values, "bosDate", "")
      [] OTHER -> FALSE

\* C16: when the checks of handleGenerate pass and the generator throws (it
\* formats a value that is no date, or a date past the last one a Date
\* holds), the handler shows the generic "unexpected error" toast, none of
\* the validation messages; the text displayed before stays, no record is
\* logged, no request is left pending and loading is false again.
C16_GenericError ==
    [][HandleGenerate /\ validationError(selectedType, fieldValues) = ""
          /\ FormatsNoDate(selectedType, fieldValues) =>
        /\ toast' = GenericError
        /\ generated' = generated
        /\ logs' = logs
        /\ pending' = "none"
        /\ loading' = FALSE]_vars

\* an updated sick report was generated; the number of days was then set
\* past the range of Date and Generate pressed again: the first text is
\* still displayed under the generic error
C16_Witness ==
    /\ selectedType = "reportSick"
    /\ Holds(fieldValues, "dayStatus", "100000000")
    /\ toast = GenericError
    /\ generateCalls = 2
    /\ Len(logs) = 1
    /\ generated = reportSickGenerate(logs[1].fields)
    /\ logs[1].fields.dayStatus = "3"
    /\ ~loading
    /\ pending = "none"

----------------------------------------------------------------------------
(* C17: the end date of an updated sick report                             *)

\* the calendar, a month at a time
LeapYear(y) == (y % 4 = 0 /\ y % 100 # 0) \/ y % 400 = 0

MonthLength(y, m) ==
    IF m = 2 THEN (IF LeapYear(y) THEN 29 ELSE 28)
    ELSE IF m \in {4, 6, 9, 11} THEN 30 ELSE 31

FirstOfNextMonth(c) ==
    IF c.m < 12 THEN [y |-> c.y, m |-> c.m + 1, d |-> 1] ELSE [y |-> c.y + 1, m |-> 1, d |-> 1]

LastOfMonthBefore(c) ==
    IF c.m > 1 THEN [y |-> c.y, m |-> c.m - 1, d |-> MonthLength(c.y, c.m - 1)]
    ELSE [y |-> c.y - 1, m |-> 12, d |-> 31]

\* the calendar day k days after c (before c, for a negative k)
RECURSIVE CalendarDaysFrom(_, _)
CalendarDaysFrom(c, k) ==
    IF c.d + k >= 1 /\ c.d + k <= MonthLength(c.y, c.m) THEN [c EXCEPT !.d = c.d + k]
    ELSE IF k > 0
         THEN CalendarDaysFrom(FirstOfNextMonth(c), k - (MonthLength(c.y, c.m) - c.d + 1))
    ELSE CalendarDaysFrom(LastOfMonthBefore(c), k + c.d)

\* the calendar days the date strings of the model name
CivilOfString ==
    (ISO_1JUN :> [y |-> 2025, m |-> 6, d |-> 1])
    @@ (ISO_1JUN_NOON :> [y |-> 2025, m |-> 6, d |-> 1])
    @@ (ISO_3JUN :> [y |-> 2025, m |-> 6, d |-> 3])
    @@ (ISO_30JUN :> [y |-> 2025, m |-> 6, d |-> 30])
    @@ (ISO_31DEC :> [y |-> 2025, m |-> 12, d |-> 31])

ShortNumeric(c) == padStart2(c.d) \o padStart2(c.m) \o padStart2(c.y % 100)

\* an updated sick report whose checks pass, with an incident date that
\* parses
UpdatedReport ==
    /\ selectedType = "reportSick"
    /\ validationError(selectedType, fieldValues) = ""
    /\ Holds(fieldValues, "newStatus", "UPDATED")
    /\ ~IsUndefined(fieldValues, "dateIncident")
    /\ fieldValues["dateIncident"] \in DOMAIN CivilOfString

\* C17: for every number of days the digits pattern accepts, Generate on an
\* updated sick report displays the report whose status ends on the
\* incident date plus (number of days - 1) calendar days, written ddMMyy:
\* one day ends on the incident date, and the end rolls over the ends of
\* months and years.
C17_EndDate ==
    [][HandleGenerate /\ UpdatedReport =>
        /\ toast' = SuccessToast("Template Generated!")
        /\ generated' =
              reportSickText(relevantFields(selectedType, fieldValues),
                             ShortNumeric(CalendarDaysFrom(
                                 CivilOfString[fieldValues["dateIncident"]],
                                 Number(fieldValues["dayStatus"]) - 1)))]_vars

----------------------------------------------------------------------------
(* C18: the two shapes of the HULL BOS text                                *)

\* the full block of a vehicle that is present
PresentBlock(f) ==
    "MID " \o f.mid \o "[present] "
    \o "\n[location] " \o f.vehicleLocation
    \o "\n[date] " \o format(DateOf(f.bosDate), "dd/MM/yy") \o " [time] " \o f.bosTime \o "hrs"
    \o "\nODO: " \o f.odo \o "km | EH: " \o f.eh \o "hrs"
    \o "\n[battery] AUX: " \o f.auxPercent \o "% " \o f.auxVolt \o "V"
    \o " | STARTER: " \o f.starterPercent \o "% " \o f.starterVolt \o "V"
    \o "\n[fuel] FUEL: " \o f.fuelPercent \o "% " \o f.fuelLitre \o "L"
    \o "\n[fire] AFES EXPIRY: " \o f.afesExpiry
    \o "\n[tools] Faults: " \o (IF f.faults # "" THEN "\n* " \o f.faults ELSE "NIL")

\* the reduced block of a vehicle that is away: the reason, and every
\* telemetry slot as its placeholder
AbsentBlock(f) ==
    "MID " \o f.mid \o "[pending] (" \o f.vehicleStatus \o ")"
    \o "\n[location] " \o f.vehicleLocation
    \o "\n[date] [Date] [time] [Time]"
    \o "\nODO: [xx] | EH: [xx]"
    \o "\n[battery] AUX: [%] [V] | STARTER: [%] [V]"
    \o "\n[fuel] FUEL: [%] [L]"
    \o "\n[fire] AFES EXPIRY: [MM/YYYY]"
    \o "\n[tools] Faults: \n* [Fault Description]"

\* C18: Generate on a HULL BOS form whose checks pass and whose BOS date,
\* if any, parses displays the full
\* telemetry block with the present glyph when vehiclePresent is "true",
\* and otherwise the reduced block with the absence reason, the placeholder
\* fault line and every telemetry slot as its placeholder, whatever was
\* entered in the telemetry fields before.
C18_ShapeByFlag ==
    [][HandleGenerate /\ selectedType = "hullBOS"
          /\ validationError(selectedType, fieldValues) = ""
          /\ ~FormatsNoDate(selectedType, fieldValues) =>
        /\ toast' = SuccessToast("Template Generated!")
        /\ generated' =
              IF Holds(fieldValues, "vehiclePresent", "true")
              THEN PresentBlock(relevantFields(selectedType, fieldValues))
              ELSE AbsentBlock(relevantFields(selectedType, fieldValues))]_vars

----------------------------------------------------------------------------
(* C20: the order of the checks                                            *)

InvalidFormatToast(field) ==
    [kind |-> "error",
     message |-> IF field.errorMessage # "" THEN field.errorMessage
                 ELSE "Invalid input in \"" \o field.label \o "\"."]

\* both dates of an off template parse, and the end is on an earlier
\* calendar day than the start
EndsBeforeStart(type, values) ==
    /\ type \in {"offAwarded", "offTemplate"}
    /\ ParsesAsDate(values, "startDate")
    /\ ParsesAsDate(values, "endDate")
    /\ CalendarDay(values, "endDate") < CalendarDay(values, "startDate")

\* C20: the required-field check answers before the pattern check, and the
\* pattern check before the check of the date range: with an active
\* required field blank, handleGenerate shows MissingField for the first
\* such field, also when a field declared before it fails its pattern;
\* with no field missing and a pattern failing, it shows InvalidFormat for
\* the first failing field, also when the end date is before the start
\* date. No text is generated in either case.
C20_CheckOrder ==
    [][HandleGenerate /\ (\/ MissingFields(selectedType, fieldValues) # {}
                          \/ PatternFailures(selectedType, fieldValues) # {}) =>
        /\ toast' =
              IF MissingFields(selectedType, fieldValues) # {}
              THEN MissingToast(FieldsOf(selectedType)[Min(MissingFields(selectedType, fieldValues))].label)
              ELSE InvalidFormatToast(FieldsOf(selectedType)[Min(PatternFailures(selectedType, fieldValues))])
        /\ generateCalls' = generateCalls
        /\ generated' = generated
        /\ logs' = logs]_vars

\* a field that fails its pattern is declared before a blank required
\* field, and generating was refused for the blank one
C20_Witness ==
    /\ MissingFields(selectedType, fieldValues) # {}
    /\ \E p \in PatternFailures(selectedType, fieldValues) :
          p < Min(MissingFields(selectedType, fieldValues))
    /\ toast = MissingToast(FieldsOf(selectedType)[Min(MissingFields(selectedType, fieldValues))].label)
    /\ generateCalls = 0
    /\ generated = ""

----------------------------------------------------------------------------
(* C21: the entries of the routine order run from today                    *)

----------------------------------------------------------------------------
(* C22: one log record for each generation                                 *)

\* C22: a step that generates a text (a call of generate or onGenerate
\* that ends with the success toast) submits exactly one log record, with
\* the text produced; every other step submits none. Stated for the
\* routine-order composer, whose handleGenerate is the step.
C22_OneLogPerGeneration ==
    [][IF generateCalls' = generateCalls + 1 /\ toast'.kind = "success"
       THEN /\ generated' # ""
            /\ Len(logs') = Len(logs) + 1
            /\ SubSeq(logs', 1, Len(logs)) = logs
       ELSE logs' = logs]_vars

----------------------------------------------------------------------------
(* C30: generating a routine order leaves the composer as it is            *)

\* C30: RoutineOrderUI.handleGenerate changes none of safetyMessage,
\* eventUpdate, spanDays, the entries (contents and order) and the pasted
\* guard-duty text, nor what is saved; the pruned list is in the text it
\* displays only.
C30_GenerateFrame ==
    [][RoutineHandleGenerate =>
        /\ safetyMessage' = safetyMessage
        /\ eventUpdate' = eventUpdate
        /\ spanDays' = spanDays
        /\ regEntries' = regEntries
        /\ routineGuardDutyText' = routineGuardDutyText
        /\ routineSaved' = routineSaved
        /\ generated' = routineOrderText(safetyMessage', eventUpdate', routineGuardDutyText',
                                         regEntries', today, nowYear)]_vars

\* a routine order of several days was generated from a pasted list that
\* the pruner shortens: the list in the state is still the pasted one
C30_Witness ==
    /\ hydrated
    /\ generateCalls = 1
    /\ toast = SuccessToast("Routine Order Generated!")
    /\ Len(regEntries) >= 2
    /\ routineGuardDutyText = RoutineGuardList
    /\ pruneGuardDutyList(routineGuardDutyText, today, nowYear) # routineGuardDutyText
    /\ generated = routineOrderText(safetyMessage, eventUpdate, routineGuardDutyText,
                                    regEntries, today, nowYear)

----------------------------------------------------------------------------
(* C23: the in-charge types of an entry                                    *)

TypeSet(icTypes) == { icTypes[i] : i \in 1..Len(icTypes) }

\* the types of a set, in the order 2IC, 3IC, 4IC
InEnumerationOrder(types) ==
    LET RECURSIVE from(_)
        from(k) ==
            IF k > 3 THEN <<>>
            ELSE (IF <<"2IC", "3IC", "4IC">>[k] \in types THEN <<(<<"2IC", "3IC", "4IC">>[k])>> ELSE <<>>)
                 \o from(k + 1)
    IN from(1)

\* C23 (states): the icTypes of every entry name no type twice and are in
\* the order 2IC, 3IC, 4IC.
C23_TypesOrdered ==
    \A i \in 1..Len(entries) :
        entries[i].icTypes = InEnumerationOrder(TypeSet(entries[i].icTypes))

\* C23: toggleIC on an entry leaves the icTypes without duplicate and in
\* the order 2IC, 3IC, 4IC: it takes the type away when the entry has
\* it and adds it in its place when not; toggling the same type again
\* gives the entries back; and every other entry, and the date and the
\* number of guards of the entry itself, stay as they are.
C23_ToggleIC ==
    [][ToggleIC =>
        /\ C23_TypesOrdered'
        /\ Len(entries') = Len(entries)
        /\ \E index \in 1..Len(entries), ic \in {"2IC", "3IC", "4IC"} :
              LET before == TypeSet(entries[index].icTypes)
                  after == IF ic \in before THEN before \ {ic} ELSE before \cup {ic}
              IN /\ entries' = [entries EXCEPT ![index].icTypes = InEnumerationOrder(after)]
                 /\ toggleICUpdater(entries', index, ic) = entries]_vars

\* two entries: the types of one were toggled to 2IC and 4IC, the
\* saved 2IC of the other was toggled off
C23_Witness ==
    /\ Len(entries) = 2
    /\ \E i, j \in 1..2 :
          /\ i # j
          /\ entries[i].icTypes = <<"2IC", "4IC">>
          /\ entries[j].icTypes = <<>>
          /\ entries[j].date = NewDate(2026, 1, 9)
          /\ entries[j].numGuards = 3
    /\ steps = 4

----------------------------------------------------------------------------
(* C24: the selected type is a template                                    *)

\* C24: in every state of the Home page the selected type is a key of the
\* template registry, during and after "Reset to Default" on the
\* guard-duty template included.
C24_SelectedTypeDefined == selectedType \in { TemplateKeys[i] : i \in 1..Len(TemplateKeys) }

----------------------------------------------------------------------------
(* C25: the values of inactive fields stay out of the text                 *)

\* the values handed to generate, with the value of every inactive field
\* taken away
WithoutInactive(type, values) ==
    [key \in KeysOf(type) |->
        IF \E i \in InactiveFields(type, values) : FieldsOf(type)[i].key = key
        THEN ""
        ELSE relevantFields(type, values)[key]]

\* C25: the text Generate displays is the text of the active fields alone:
\* the value of a field whose showIf is not satisfied changes nothing in
\* it. In the Leave/Off template, with isHalfDay "false" and a timeOff left
\* from an earlier choice, the text has no "[AM]" or "[PM]".
C25_InactiveValuesUnused ==
    [][HandleGenerate /\ validationError(selectedType, fieldValues) = ""
          /\ ~FormatsNoDate(selectedType, fieldValues) =>
        /\ generated' = generate(selectedType, WithoutInactive(selectedType, fieldValues), today)
        /\ (selectedType = "offTemplate" /\ Holds(fieldValues, "isHalfDay", "false")) =>
              generated' = offTemplateGenerate(
                              [relevantFields(selectedType, fieldValues) EXCEPT !.timeOff = ""])]_vars

----------------------------------------------------------------------------
(* C26: the head-count of a roster, over every line of the five labels     *)

countedLabels == <<"STAYOUT", "OS", "OTHERS", "RSO", "RSI">>

IsCountedLine(line) ==
    \E i \in 1..Len(countedLabels) : IsLabelLine(line, countedLabels[i])

\* the sum of the values on all the STAYOUT, OS, OTHERS, RSO and RSI lines
RECURSIVE HeadCount(_)
HeadCount(ls) ==
    IF ls = <<>> THEN 0
    ELSE (IF IsCountedLine(Head(ls)) THEN LabelLineValue(Head(ls)) ELSE 0)
         + HeadCount(Tail(ls))

\* C26: the sum of the values on all the STAYOUT, OS, OTHERS, RSO and RSI
\* lines of the adjusted roster equals that sum over the pasted roster, for
\* every roster, one without a STAYOUT line or with a repeated label included.
C26_HeadCountConserved ==
    nstage = "generated" =>
        HeadCount(Lines(nightOut.psNightStrengthAdj)) = HeadCount(Lines(psNightStrength))

\* the same, for the rosters in which every counted line is the first match
\* of its label and a STAYOUT line is present
C26_WithStayOutLine ==
    LET ls == Lines(psNightStrength)
    IN nstage = "generated" /\ LabelLinesOf(ls, "STAYOUT") # {}
       /\ (\A i \in 1..Len(LABELS) : matchNumber(psNightStrength, LABELS[i]) = RosterCount(ls, LABELS[i])) =>
        HeadCount(Lines(nightOut.psNightStrengthAdj)) = HeadCount(ls)

----------------------------------------------------------------------------
(* C27: the generated guard-duty list, handed to the pruner                *)

\* the days on which the generated list is pruned
PruneTodays ==
    { [day |-> DaysFromCivil(2026, 1, 1), tod |-> 0],
      [day |-> DaysFromCivil(2026, 2, 8), tod |-> 1],
      [day |-> DaysFromCivil(2026, 2, 10), tod |-> 0] }

\* the entries whose own date is on or after the start of the given day
EntriesFrom(es, day) == SelectSeq(es, LAMBDA e : TimeGeq(e.date, startOfDay(day)))

\* the header and the blocks of the given entries, as the pruner lays a
\* list out
ListOf(es, month, year) ==
    IF es = <<>> THEN <<Header(month, year)>>
    ELSE <<Header(month, year), NL, NL>>
         \o Join([i \in 1..Len(es) |-> cleanBlock(entryText(es[i], TRUE))], separator)

PrunedIs(expected(_, _)) ==
    generateCalls > 0 /\ entries # <<>>
    /\ generated = Text(guardDutyText(entries, selectedMonth, selectedYear)) =>
        \A day \in PruneTodays :
            pruneGuardDutyList(guardDutyText(entries, selectedMonth, selectedYear),
                               day, getFullYear(day))
              = expected(entries, day)

\* C27: pruning the generated list with a given today gives the header and
\* exactly the blocks of the entries whose own calendar date (day, month and
\* year) is on or after today; with today no later than every entry's date
\* every block is kept.
C27_RoundTrip ==
    PrunedIs(LAMBDA es, day : ListOf(EntriesFrom(es, day), selectedMonth, selectedYear))

\* the same with every entry dated in the year of the header
C27_InHeaderYear ==
    (\A i \in 1..Len(entries) : getFullYear(entries[i].date) = selectedYear) => C27_RoundTrip

----------------------------------------------------------------------------
(* C28: the loading flag of the flat form                                  *)

\* the log request settles: the browser resolves or rejects every fetch
SpecFormLive == SpecForm /\ WF_vars(FetchResolves \/ FetchRejects)

\* C28, first part: the loading flag set by handleGenerate is reset to
\* false, on every path out of the handler.
C28_LoadingResets == loading ~> ~loading

\* C28: with the generated text of a generation displayed, the Generate
\* button is enabled (loading is false) while the log request of that
\* generation is still in flight, so that a second generation can start
\* without waiting for the request.
C28_GenerateWhileLogging == pending = "fetch" /\ generated # "" => ~loading

----------------------------------------------------------------------------
(* C29: the stored guard-duty state during the mount                       *)

\* C29: a state saved under the storage key is not overwritten with the
\* state of the first render during the mount: while the state the load
\* effect has read is still to be applied, the item holds that state, and
\* the first write of the mount stores it.
C29_SavedStateKept == gphase = "loaded" => guardSaved = guardLoaded

\* the state the mount ends in: the item holds the loaded state again
C29_Restored ==
    [][gphase = "loaded" /\ gphase' = "mounted" => guardSaved' = guardLoaded]_vars

====
